---- MODULE Spec2Model ----
(***************************************************************************)
(* Model of core/assertion_utils.py (ResponseAssertor and its shared       *)
(* dispatch registry _ASSERTION_MAP) of aswBase.                           *)
(*                                                                         *)
(* Python values are tagged records [t |-> <type name>, v |-> <payload>],  *)
(* so that isinstance / type(x).__name__ / == of values of different       *)
(* Python types can be evaluated.  List positions are Python's (0-based)   *)
(* wherever they are stored in an error or in the invocation log.          *)
(***************************************************************************)
EXTENDS Integers, Sequences, FiniteSets, TLC

VARIABLES
    assertors,      \* the ResponseAssertor instances created so far, by id
    ASSERTION_MAP,  \* ResponseAssertor._ASSERTION_MAP (class attribute)
    config,         \* the caller's assert_config object (mutated in place)
    runs,           \* the assert_from_config calls made on `config` so far
    responses,      \* the requests.Response objects that exist, by id
    calls,          \* the direct calls of operations made so far
    args,           \* the arguments the caller holds for its direct calls
    threads         \* the threads that run concurrently: where each one is
                    \* in __init__ and assert_from_config, what it looked up

vars ==
    <<assertors, ASSERTION_MAP, config, runs, responses, calls, args, threads>>

\* ------------------------------------------------------------------ bounds
MaxAssertors == 2
MaxLen == 2
MaxRuns == 2
MaxCalls == 2
MaxPathLen == 3
MaxItems == 2
MaxThreads == 2
MaxLookups == 2
MaxCases == 2

\* ------------------------------------------------------- Python values
PyInt(n) == [t |-> "int", v |-> n]
PyStr(s) == [t |-> "str", v |-> s]
PyDict(f) == [t |-> "dict", v |-> f]
PyList(s) == [t |-> "list", v |-> s]
PyTuple(s) == [t |-> "tuple", v |-> s]
PyNone == [t |-> "NoneType", v |-> 0]
\* a datetime.date, as yaml.safe_load produces for an ISO date scalar
PyDate(n) == [t |-> "date", v |-> n]

PyBool(b) == [t |-> "bool", v |-> b]
\* a float that is a whole number of microseconds (the seconds of the
\* model: exact in a double below 2^53 microseconds), held in microseconds
PyFloat(micros) == [t |-> "float", v |-> micros]
\* a str built by an f-string, as the parts it is built from
FString(parts) == [t |-> "str", v |-> parts]
\* a callable, as the description of what it does when called
PyFunction(rule) == [t |-> "function", v |-> rule]
EmptyDict == PyDict([k \in {} |-> PyNone])

\* the number a bool or an int compares as
Num(a) == IF a.t = "bool" THEN (IF a.v THEN 1 ELSE 0) ELSE a.v

\* Python's == on two values of the model
RECURSIVE PyEq(_, _)
PyEq(a, b) ==
    IF a.t \in {"int", "bool"} /\ b.t \in {"int", "bool"}
    THEN Num(a) = Num(b)
    ELSE IF a.t # b.t THEN FALSE
    ELSE IF a.t = "dict"
    THEN /\ DOMAIN a.v = DOMAIN b.v
         /\ \A k \in DOMAIN a.v : PyEq(a.v[k], b.v[k])
    ELSE IF a.t \in {"list", "tuple"}
    THEN /\ Len(a.v) = Len(b.v)
         /\ \A i \in 1..Len(a.v) : PyEq(a.v[i], b.v[i])
    ELSE a.v = b.v

\* bool(x) of a None or a str
Truthy(x) == ~(x.t = "NoneType" \/ (x.t = "str" /\ x.v = ""))

\* json.dumps(item): raises TypeError exactly when some value of the dict is
\* not JSON serializable
JsonTypes == {"int", "str", "NoneType"}
JsonDumpable(d) == \A k \in DOMAIN d : d[k].t \in JsonTypes

\* a lookup d[key] that leaves the key in the dict
DictLookedUp(d, key) == d

\* dict.pop(key) as the dict left behind
DictWithout(d, key) == [k \in DOMAIN d \ {key} |-> d[k]]

\* ------------------------------------------------------------ responses
NoAttr == "<no attribute>"

\* the encodings a body is decoded with, and response.encoding = None
Encodings == {"utf-8", "latin-1"}
NoEncoding == "<None>"

\* what json.loads cannot parse
NotJson == [t |-> "invalid", v |-> 0]

\* response.content: the bytes of the body, as the JSON document (or
\* NotJson) they decode to under each encoding
Content(utf8, latin1) ==
    [e \in Encodings |-> IF e = "utf-8" THEN utf8 ELSE latin1]
Ascii(doc) == Content(doc, doc)

\* a datetime.timedelta, normalised as Python keeps it
Timedelta(days, seconds, microseconds) ==
    [days |-> days, seconds |-> seconds, microseconds |-> microseconds]

\* timedelta.total_seconds(), in microseconds
total_seconds(td) ==
    (td.days * 86400 + td.seconds) * 1000000 + td.microseconds

\* a requests.Response: status_code, whether headers has Location, the
\* request_id attribute set by ClientBase, encoding and content; elapsed
\* is timedelta(0) until the response is given its duration
Response(code, location, request_id, encoding, content) ==
    [ status_code |-> code, location |-> location,
      request_id |-> request_id, encoding |-> encoding,
      content |-> content, elapsed |-> Timedelta(0, 0, 0) ]

\* the response received after `elapsed`
Timed(response, elapsed) == [response EXCEPT !.elapsed = elapsed]

Responses ==
    { Response(200, FALSE, "r1", "utf-8", Ascii(PyDict([a |-> PyInt(1)]))),
      Response(404, FALSE, "r2", "utf-8", Ascii(NotJson)),
      Response(301, TRUE, NoAttr, "utf-8", Ascii(NotJson)) }

\* getattr(response, "request_id", "unknown")
RequestIdOf(response) ==
    IF response.request_id = NoAttr THEN "unknown" ELSE response.request_id

\* ClientBase accessors (requests.Response properties behind them)
status_code(response) == response.status_code
elapsed_seconds(response) == total_seconds(response.elapsed)
is_ok(response) == ~(response.status_code >= 400 /\ response.status_code < 600)
is_redirect(response) ==
    response.location /\ response.status_code \in {301, 302, 303, 307, 308}
\* a permanent redirect recognised by its status code alone
is_permanent_redirect_by_status(response) ==
    response.status_code \in {301, 308}

is_permanent_redirect(response) ==
    response.location /\ response.status_code \in {301, 308}

\* response.json() and response.text decode the content with
\* response.encoding, or with the detected encoding (UTF-8 for the bodies
\* of the model) when it is None
Decoded(response) ==
    response.content[IF response.encoding = NoEncoding THEN "utf-8"
                     ELSE response.encoding]

\* `if encoding: response.encoding = encoding`
SetEncoding(response, encoding) ==
    IF Truthy(encoding) THEN [response EXCEPT !.encoding = encoding.v]
    ELSE response

\* ClientBase.json(response, default, encoding): the response object as the
\* call leaves it, whether parsing failed, and the value returned
json(response, default, encoding) ==
    LET r2 == SetEncoding(response, encoding)
        doc == Decoded(r2)
    IN  [ response |-> r2, failed |-> doc.t = "invalid",
          value |-> IF doc.t = "invalid" THEN default ELSE doc ]

\* ------------------------------------------------- extract_json_field
\* A field path is the sequence of its characters (1-character strings).
\* the str made of the characters
RECURSIVE Join(_)
Join(chars) == IF chars = <<>> THEN "" ELSE chars[1] \o Join(Tail(chars))

Digits == {"0", "1", "2", "3", "4", "5", "6", "7", "8", "9"}
DigitValue(ch) ==
    CASE ch = "0" -> 0 [] ch = "1" -> 1 [] ch = "2" -> 2 [] ch = "3" -> 3
      [] ch = "4" -> 4 [] ch = "5" -> 5 [] ch = "6" -> 6 [] ch = "7" -> 7
      [] ch = "8" -> 8 [] ch = "9" -> 9

\* the number written by a non-empty sequence of digits
RECURSIVE Decimal(_)
Decimal(chars) ==
    IF chars = <<>> THEN 0
    ELSE 10 * Decimal(SubSeq(chars, 1, Len(chars) - 1))
         + DigitValue(chars[Len(chars)])

AllDigits(chars) == chars # <<>> /\ \A i \in 1..Len(chars) : chars[i] \in Digits

\* int(text) accepts an optional sign followed by digits (white space and
\* underscores do not occur in the paths of the model) and raises
\* ValueError otherwise
Unsigned(chars) ==
    IF chars # <<>> /\ chars[1] \in {"-", "+"} THEN Tail(chars) ELSE chars
IsIntLiteral(chars) == AllDigits(Unsigned(chars))
IntOf(chars) ==
    IF chars[1] = "-" THEN 0 - Decimal(Unsigned(chars))
    ELSE Decimal(Unsigned(chars))

\* the pattern \.(?![^\[]*\]) at position i: a dot that is not followed
\* by a "]" with no "[" in between
IsSeparator(path, i) ==
    /\ path[i] = "."
    /\ ~\E j \in (i + 1)..Len(path) :
            /\ path[j] = "]"
            /\ \A k \in (i + 1)..(j - 1) : path[k] # "["

\* re.split of the path from position i on, cur being the segment begun
RECURSIVE SplitFrom(_, _, _)
SplitFrom(path, i, cur) ==
    IF i > Len(path) THEN <<cur>>
    ELSE IF IsSeparator(path, i)
    THEN <<cur>> \o SplitFrom(path, i + 1, <<>>)
    ELSE SplitFrom(path, i + 1, Append(cur, path[i]))

\* a path that is not split at its dots
path_segments_whole(field_path) == <<field_path>>

path_segments(field_path) == SplitFrom(field_path, 1, <<>>)

\* segment.strip('[]')
RECURSIVE StripBrackets(_)
StripBrackets(seg) ==
    IF seg = <<>> THEN seg
    ELSE IF seg[1] \in {"[", "]"} THEN StripBrackets(Tail(seg))
    ELSE IF seg[Len(seg)] \in {"[", "]"}
    THEN StripBrackets(SubSeq(seg, 1, Len(seg) - 1))
    ELSE seg

\* the outcome of an expression: its value, or the exception it raised
Value(v) == [exc |-> "", value |-> v]
Exc(name) == [exc |-> name, value |-> PyNone]

\* current_data[index] for an int index (a str in a body of the model has
\* at most one character)
GetIndex(data, index) ==
    IF data.t \in {"list", "str"}
    THEN LET n == Len(data.v)
             i == IF index < 0 THEN n + index ELSE index
         IN  IF i < 0 \/ i >= n THEN Exc("IndexError")
             ELSE IF data.t = "list" THEN Value(data.v[i + 1])
             ELSE Value(data)
    ELSE IF data.t = "dict" THEN Exc("KeyError")
    ELSE Exc("TypeError")

\* current_data[key] for a str key
GetKey(data, key) ==
    IF data.t = "dict"
    THEN IF Join(key) \in DOMAIN data.v THEN Value(data.v[Join(key)])
         ELSE Exc("KeyError")
    ELSE Exc("TypeError")

IndexOfFirst(seg, chars) ==
    IF \E i \in 1..Len(seg) : seg[i] \in chars
    THEN CHOOSE i \in 1..Len(seg) :
            seg[i] \in chars /\ \A j \in 1..(i - 1) : seg[j] \notin chars
    ELSE 0

\* re.match(r'([^\[]+)\[(\d+)\]', segment): the groups of the match at the
\* start of the segment, whatever follows it
KeyIndexMatch(seg) ==
    LET open == IndexOfFirst(seg, {"["})
        rest == SubSeq(seg, open + 1, Len(seg))
        stop == IF \E i \in 1..Len(rest) : rest[i] \notin Digits
                THEN CHOOSE i \in 1..Len(rest) :
                        /\ rest[i] \notin Digits
                        /\ \A j \in 1..(i - 1) : rest[j] \in Digits
                ELSE 0
    IN  IF open >= 2 /\ stop >= 2 /\ rest[stop] = "]"
        THEN [ matched |-> TRUE, list_name |-> SubSeq(seg, 1, open - 1),
               index_str |-> SubSeq(rest, 1, stop - 1) ]
        ELSE [ matched |-> FALSE, list_name |-> <<>>, index_str |-> <<>> ]

\* one pass through the loop body for a segment: the new current_data, or
\* `return default` (returned), or the exception that reaches the outer
\* handler
Step(current_data, seg) ==
    IF seg # <<>> /\ seg[1] = "[" /\ seg[Len(seg)] = "]"
    THEN LET text == StripBrackets(seg)
             got == IF IsIntLiteral(text)
                    THEN GetIndex(current_data, IntOf(text))
                    ELSE Exc("ValueError")
         IN  IF got.exc \in {"ValueError", "IndexError", "TypeError"}
             THEN [returned |-> TRUE, exc |-> "", value |-> PyNone]
             ELSE [returned |-> FALSE, exc |-> got.exc, value |-> got.value]
    ELSE IF (\E i \in 1..Len(seg) : seg[i] = "[")
            /\ (\E i \in 1..Len(seg) : seg[i] = "]")
    THEN LET match == KeyIndexMatch(seg)
             got == GetKey(current_data, match.list_name)
             got2 == GetIndex(got.value, Decimal(match.index_str))
         IN  IF ~match.matched
             THEN [returned |-> TRUE, exc |-> "", value |-> PyNone]
             ELSE IF got.exc # ""
             THEN [returned |-> FALSE, exc |-> got.exc, value |-> PyNone]
             ELSE [returned |-> FALSE, exc |-> got2.exc, value |-> got2.value]
    ELSE LET got == GetKey(current_data, seg)
         IN  [returned |-> FALSE, exc |-> got.exc, value |-> got.value]

\* the for loop over the segments from position i on, inside the try: the
\* value returned, or the exception that escapes the function
RECURSIVE Walk(_, _, _, _)
Walk(current_data, segments, i, default) ==
    IF i > Len(segments) THEN Value(current_data)
    ELSE LET st == Step(current_data, segments[i])
         IN  IF st.returned THEN Value(default)
             ELSE IF st.exc \in {"KeyError", "IndexError", "TypeError"}
             THEN Value(default)
             ELSE IF st.exc # "" THEN Exc(st.exc)
             ELSE Walk(st.value, segments, i + 1, default)

\* `json_data is default`: the object json() fell back to, or the same
\* singleton (None, a bool, a small int)
IsDefault(j, default) ==
    \/ j.failed
    \/ /\ j.value.t \in {"NoneType", "bool", "int"}
       /\ j.value.t = default.t
       /\ j.value.v = default.v

\* ClientBase.extract_json_field: the response object as the call leaves
\* it, the value returned and the exception raised (if any)
extract_json_field(response, field_path, default, encoding) ==
    LET j == json(response, default, encoding)
        out == IF IsDefault(j, default) THEN Value(default)
               ELSE Walk(j.value, path_segments(field_path), 1, default)
    IN  [response |-> j.response, exc |-> out.exc, value |-> out.value]

\* ------------------------------------------------- extract_json_path
\* A JSONPath expression is modelled by its kind: "root" for `$`, "child"
\* for `$.key`, "each" for `$.key[*]` and "invalid" for a string that
\* jsonpath_ng.parse rejects.
\* [match.value for match in parse(expr).find(json_data)], for bodies in
\* which the key of an "each" expression holds a list or is missing
jsonpath_find(expr, doc) ==
    IF expr.kind = "root" THEN <<doc>>
    ELSE IF doc.t = "dict" /\ expr.key \in DOMAIN doc.v
    THEN IF expr.kind = "child" THEN <<doc.v[expr.key]>>
         ELSE IF doc.v[expr.key].t = "list" THEN doc.v[expr.key].v
         ELSE <<>>
    ELSE <<>>

\* a result that is always the first match
extract_json_path_first(response, jsonpath_expr, default, encoding) ==
    LET j == json(response, default, encoding)
        matches == jsonpath_find(jsonpath_expr, j.value)
        result == IF Len(matches) >= 1 THEN matches[1] ELSE default
    IN  [ response |-> j.response, exc |-> "",
          value |-> IF IsDefault(j, default) THEN default
                    ELSE IF jsonpath_expr.kind = "invalid" THEN default
                    ELSE result ]

\* ClientBase.extract_json_path, with jsonpath_ng installed
extract_json_path(response, jsonpath_expr, default, encoding) ==
    LET j == json(response, default, encoding)
        matches == jsonpath_find(jsonpath_expr, j.value)
        result == IF Len(matches) = 1 THEN matches[1]
                  ELSE IF Len(matches) > 0 THEN PyList(matches)
                  ELSE default
    IN  [ response |-> j.response, exc |-> "",
          value |-> IF IsDefault(j, default) THEN default
                    ELSE IF jsonpath_expr.kind = "invalid" THEN default
                    ELSE result ]

\* --------------------------------------------- extract_json_filtered
\* keep_mapping is a dict of field path -> alias, modelled by the sequence
\* of its items [path, alias] in insertion order.
\* the for loop over keep_mapping.items() from position i on: the response
\* object and the result dict it leaves
\* the result dict after one item: the value found under its alias, else
\* the default's entry for the alias when it has one
Keep(result, alias, field_value, default) ==
    IF field_value.t # "NoneType"
    THEN (alias :> field_value) @@ result
    ELSE IF alias \in DOMAIN default.v
    THEN (alias :> default.v[alias]) @@ result
    ELSE result

\* the loop's state after the item whose field was looked up as f
AfterItem(f, alias, default, result) ==
    [ response |-> f.response,
      result |-> Keep(result, alias, f.value, default) ]

RECURSIVE FilterLoop(_, _, _, _, _)
FilterLoop(state, items, i, default, encoding) ==
    IF i > Len(items) THEN state
    ELSE FilterLoop(AfterItem(extract_json_field(state.response,
                                                 items[i].path, PyNone,
                                                 encoding),
                              items[i].alias, default, state.result),
                    items, i + 1, default, encoding)

\* `default or {}`
DefaultOrEmpty(default) ==
    IF default.t = "NoneType" \/ (default.t = "dict" /\ DOMAIN default.v = {})
    THEN EmptyDict ELSE default

\* `return result or default`
ResultOrDefault(loop, default) ==
    [ response |-> loop.response, exc |-> "",
      value |-> IF DOMAIN loop.result = {} THEN default
                ELSE PyDict(loop.result) ]

\* the function from the parsed body j on
FilterParsed(j, keep_mapping, default, encoding) ==
    IF j.value.t \notin {"dict", "list"}
    THEN [response |-> j.response, exc |-> "", value |-> default]
    ELSE ResultOrDefault(
             FilterLoop([response |-> j.response, result |-> EmptyDict.v],
                        keep_mapping.v, 1, default, encoding),
             default)

\* the function with `default or {}` evaluated
FilterWithDefault(response, keep_mapping, default, encoding) ==
    IF keep_mapping.t # "dict"
    THEN [response |-> response, exc |-> "", value |-> default]
    ELSE FilterParsed(json(response, default, encoding), keep_mapping,
                      default, encoding)

\* ClientBase.extract_json_filtered
extract_json_filtered(response, keep_mapping, default, encoding) ==
    FilterWithDefault(response, keep_mapping, DefaultOrEmpty(default),
                      encoding)

\* ------------------------------------------------ assertion operations
\* the names registered by _initialize_assertion_map, with their methods
RegisteredMethod ==
    [ status_code           |-> "assert_status_code",
      is_ok                 |-> "assert_is_ok",
      is_redirect           |-> "assert_is_redirect",
      is_permanent_redirect |-> "assert_is_permanent_redirect",
      json_field            |-> "assert_json_field",
      json_path             |-> "assert_json_path",
      json_contains         |-> "assert_json_contains",
      response_header       |-> "assert_response_header",
      cookie                |-> "assert_cookie",
      redirect_count        |-> "assert_redirect_count",
      redirect_chain        |-> "assert_redirect_chain",
      content_contains      |-> "assert_content_contains",
      content_length        |-> "assert_content_length",
      response_url          |-> "assert_response_url",
      query_param           |-> "assert_query_param",
      elapsed_less_than     |-> "assert_elapsed_less_than" ]

\* positional-or-keyword parameters of each method (self excluded)
Params(func) ==
    CASE func = "assert_status_code" -> {"expected_code", "msg"}
      [] func \in {"assert_is_ok", "assert_is_redirect",
                   "assert_is_permanent_redirect"} -> {"msg"}
      [] func = "assert_json_field" ->
            {"field_path", "expected_value", "default", "encoding", "msg"}
      [] func = "assert_json_path" ->
            {"jsonpath_expr", "expected_value", "default", "encoding", "msg"}
      [] func = "assert_json_contains" -> {"expected_dict", "encoding", "msg"}
      [] func = "assert_response_header" ->
            {"header_name", "expected_value", "default", "msg"}
      [] func = "assert_cookie" ->
            {"cookie_name", "expected_value", "default", "msg"}
      [] func = "assert_redirect_count" -> {"expected_count", "msg"}
      [] func = "assert_redirect_chain" -> {"expected_chain", "msg"}
      [] func = "assert_content_contains" -> {"expected_str", "encoding", "msg"}
      [] func = "assert_content_length" -> {"expected_length", "msg"}
      [] func = "assert_response_url" -> {"expected_url", "msg"}
      [] func = "assert_query_param" ->
            {"param_name", "expected_value", "default", "msg"}
      [] func = "assert_elapsed_less_than" -> {"max_seconds", "msg"}
      [] func = "assert_header_date" ->
            {"expected_date", "header_name", "default", "msg"}
      [] func = "assert_business_rule" -> {"rule_func", "rule_desc", "msg"}

\* the parameters without a default value
Required(func) ==
    IF func = "assert_header_date" THEN {"expected_date"}
    ELSE Params(func) \ {"default", "encoding", "msg"}

\* the methods declared with a trailing **kwargs
HasVarKeywords(func) == func = "assert_business_rule"

\* **kwargs binds to the method's parameters (otherwise Python raises
\* TypeError before the method body runs)
Binds(func, kwargs) ==
    /\ HasVarKeywords(func) \/ DOMAIN kwargs \subseteq Params(func)
    /\ Required(func) \subseteq DOMAIN kwargs

Arg(kwargs, name, default) ==
    IF name \in DOMAIN kwargs THEN kwargs[name] ELSE default

\* _format_assert_msg: the values the failure message is built from
\* (note: the parts of the trailing annotation line)
format_assert_msg(self, assert_type, expected, actual, note) ==
    [ req_id      |-> assertors[self].request_id,
      assert_type |-> assert_type,
      expected    |-> expected,
      actual      |-> actual,
      note        |-> note ]

NoMsg == [ req_id |-> "", assert_type |-> "", expected |-> PyNone,
           actual |-> PyNone, note |-> <<>> ]

Passed == [raised |-> FALSE, exc |-> "", msg |-> NoMsg]
Raised(exc, msg) == [raised |-> TRUE, exc |-> exc, msg |-> msg]

\* a check that records the failure and goes on
PyAssertLogged(cond, msg) == Passed

\* `assert cond, message`
PyAssert(cond, msg) == IF cond THEN Passed ELSE Raised("AssertionError", msg)

assert_status_code(self, response, kwargs) ==
    LET actual_code == status_code(response)
        expected_code == kwargs["expected_code"]
    IN  PyAssert(PyEq(PyInt(actual_code), expected_code),
                 format_assert_msg(self, "status code", expected_code,
                                   PyInt(actual_code),
                                   <<Arg(kwargs, "msg", PyStr(""))>>))

assert_is_ok(self, response, kwargs) ==
    LET is_success == is_ok(response)
        actual_code == status_code(response)
    IN  PyAssert(is_success,
                 format_assert_msg(self, "request is ok", PyStr("True"),
                                   PyStr("False"),
                                   <<Arg(kwargs, "msg", PyStr("")),
                                     PyInt(actual_code)>>))

assert_is_redirect(self, response, kwargs) ==
    LET is_redirect_flag == is_redirect(response)
        actual_code == status_code(response)
    IN  PyAssert(is_redirect_flag,
                 format_assert_msg(self, "is redirect", PyStr("True"),
                                   PyStr("False"),
                                   <<Arg(kwargs, "msg", PyStr("")),
                                     PyInt(actual_code)>>))

assert_is_permanent_redirect(self, response, kwargs) ==
    LET is_perm_redirect == is_permanent_redirect(response)
        actual_code == status_code(response)
    IN  PyAssert(is_perm_redirect,
                 format_assert_msg(self, "is permanent redirect",
                                   PyStr("True"), PyStr("False"),
                                   <<Arg(kwargs, "msg", PyStr("")),
                                     PyInt(actual_code)>>))

\* a comparison of the top-level values only
dict_contains_flat(actual, expected) ==
    \A k \in DOMAIN expected.v :
        /\ k \in DOMAIN actual.v
        /\ PyEq(actual.v[k], expected.v[k])

\* _dict_contains(actual, expected) of assert_json_contains
RECURSIVE dict_contains(_, _)
dict_contains(actual, expected) ==
    \A k \in DOMAIN expected.v :
        /\ k \in DOMAIN actual.v
        /\ IF expected.v[k].t = "dict" /\ actual.v[k].t = "dict"
           THEN dict_contains(actual.v[k], expected.v[k])
           ELSE PyEq(actual.v[k], expected.v[k])

\* the two assert statements of assert_json_contains, on the parsed body
json_contains(self, expected_dict, actual_json, note) ==
    IF actual_json.t # "dict"
    THEN Raised("AssertionError",
                format_assert_msg(self, "JSON contains", expected_dict,
                                  PyStr(actual_json.t), note))
    ELSE IF expected_dict.t # "dict"
    THEN Raised("AttributeError", NoMsg)
    ELSE PyAssert(dict_contains(actual_json, expected_dict),
                  format_assert_msg(self, "JSON contains", expected_dict,
                                    actual_json, note))

assert_json_contains(self, response, kwargs) ==
    json_contains(self, kwargs["expected_dict"],
                  json(response, EmptyDict,
                       Arg(kwargs, "encoding", PyNone)).value,
                  <<Arg(kwargs, "msg", PyStr(""))>>)

\* ----------------------------------------------- assert_elapsed_less_than
\* the types `<=` compares with a float
IsNumber(x) == x.t \in {"int", "float", "bool"}

\* the number of microseconds a number of seconds is
Micros(x) == IF x.t = "float" THEN x.v ELSE Num(x) * 1000000

\* f"{actual_seconds:.3f}": the seconds rounded to milliseconds (none of
\* the durations of the model lies halfway between two milliseconds)
Fixed3(micros) == [fmt |-> ".3f", millis |-> (micros + 500) \div 1000]

\* an upper bound that the duration has to stay below
assert_elapsed_strictly_less_than(self, response, kwargs) ==
    IF ~IsNumber(kwargs["max_seconds"]) THEN Raised("TypeError", NoMsg)
    ELSE PyAssert(elapsed_seconds(response) < Micros(kwargs["max_seconds"]),
                  format_assert_msg(
                      self, "elapsed less than",
                      FString(<<"<= ", kwargs["max_seconds"], "s">>),
                      FString(<<Fixed3(elapsed_seconds(response)), "s">>),
                      <<Arg(kwargs, "msg", PyStr(""))>>))

assert_elapsed_less_than(self, response, kwargs) ==
    IF ~IsNumber(kwargs["max_seconds"]) THEN Raised("TypeError", NoMsg)
    ELSE PyAssert(elapsed_seconds(response) <= Micros(kwargs["max_seconds"]),
                  format_assert_msg(
                      self, "elapsed less than",
                      FString(<<"<= ", kwargs["max_seconds"], "s">>),
                      FString(<<Fixed3(elapsed_seconds(response)), "s">>),
                      <<Arg(kwargs, "msg", PyStr(""))>>))

\* --------------------------------------------------- assert_business_rule
\* what a rule function does when it is called: it returns a value, it
\* raises an exception of a class with a text (a sequence of characters),
\* or it returns whether the status code is 200
Returns(value) == [kind |-> "returns", value |-> value]
Raises(exc, text) == [kind |-> "raises", exc |-> exc, text |-> text]
ReturnsStatusIs200 == [kind |-> "status is 200"]

\* how a call ended: with a value, or with an exception
Returned(value) == [raised |-> FALSE, exc |-> "", text |-> <<>>, value |-> value]
Thrown(exc, text) == [raised |-> TRUE, exc |-> exc, text |-> text, value |-> PyNone]

\* rule_func(self.response): calling what is not callable raises TypeError
call_rule(rule_func, response) ==
    IF rule_func.t # "function"
    THEN Thrown("TypeError", <<"n", "o", "t", " ", "c", "a", "l", "l", "a", "b", "l", "e">>)
    ELSE IF rule_func.v.kind = "raises"
    THEN Thrown(rule_func.v.exc, rule_func.v.text)
    ELSE IF rule_func.v.kind = "status is 200"
    THEN Returned(PyBool(status_code(response) = 200))
    ELSE Returned(rule_func.v.value)

\* the built-in exception classes that do not derive from Exception
NotExceptions == {"BaseException", "KeyboardInterrupt", "SystemExit", "GeneratorExit"}

\* `except Exception` catches the class
IsException(exc) == exc \notin NotExceptions

\* str(e)[:500]
ErrorTextLimit == 500
Truncated(text) ==
    IF Len(text) <= ErrorTextLimit THEN text
    ELSE SubSeq(text, 1, ErrorTextLimit)

\* the assertion-type labels of the three failures, with the rule's
\* description in brackets
Label(prefix, rule_desc) == prefix \o "[" \o rule_desc.v \o "]"

\* a check of the result that takes any truthy value for True
business_rule_truthy(self, rule_desc, msg, out) ==
    IF out.raised
    THEN IF IsException(out.exc)
         THEN Raised("AssertionError",
                     format_assert_msg(
                         self, Label("business rule raised", rule_desc),
                         PyStr("runs without exception and returns True"),
                         FString(<<"rule raised: ", Truncated(out.text)>>),
                         <<msg>>))
         ELSE Raised(out.exc, NoMsg)
    ELSE PyAssert(\/ out.value.t = "bool" /\ out.value.v
                  \/ out.value.t = "int" /\ out.value.v # 0
                  \/ out.value.t = "str" /\ out.value.v # "",
                  format_assert_msg(
                      self, Label("business rule", rule_desc),
                      PyStr("True"), PyStr("False"),
                      <<msg, FString(<<"no extra arguments">>)>>))

\* assert_business_rule once the rule function has been called and ended
\* as `out`: the except clause and the two assert statements
business_rule(self, rule_desc, msg, out) ==
    IF out.raised
    THEN IF IsException(out.exc)
         THEN Raised("AssertionError",
                     format_assert_msg(
                         self, Label("business rule raised", rule_desc),
                         PyStr("runs without exception and returns True"),
                         FString(<<"rule raised: ", Truncated(out.text)>>),
                         <<msg>>))
         ELSE Raised(out.exc, NoMsg)
    ELSE IF out.value.t # "bool"
    THEN Raised("AssertionError",
                format_assert_msg(
                    self, Label("business rule returned no bool", rule_desc),
                    PyStr("bool"),
                    FString(<<out.value.t, out.value>>),
                    <<msg>>))
    ELSE PyAssert(out.value.v,
                  format_assert_msg(
                      self, Label("business rule", rule_desc),
                      PyStr("True"), PyStr("False"),
                      <<msg, FString(<<"no extra arguments">>)>>))

assert_business_rule(self, response, kwargs) ==
    business_rule(self, kwargs["rule_desc"], Arg(kwargs, "msg", PyStr("")),
                  call_rule(kwargs["rule_func"], response))

\* the body of a method, run on the instance `self` while its bound
\* response object holds `response`
Body(func, self, response, kwargs) ==
    CASE func = "assert_status_code" ->
            assert_status_code(self, response, kwargs)
      [] func = "assert_is_ok" -> assert_is_ok(self, response, kwargs)
      [] func = "assert_is_redirect" ->
            assert_is_redirect(self, response, kwargs)
      [] func = "assert_is_permanent_redirect" ->
            assert_is_permanent_redirect(self, response, kwargs)
      [] func = "assert_json_contains" ->
            assert_json_contains(self, response, kwargs)
      [] func = "assert_elapsed_less_than" ->
            assert_elapsed_less_than(self, response, kwargs)
      [] func = "assert_business_rule" ->
            assert_business_rule(self, response, kwargs)

\* the bound response object as the body of the method leaves it
BodyEffect(func, response, kwargs) ==
    IF func = "assert_json_contains"
    THEN json(response, EmptyDict, Arg(kwargs, "encoding", PyNone)).response
    ELSE response

\* a bound method object: the instance it was taken from and the function
BoundMethod(self, func) == [self |-> self, func |-> func]

\* bound(**kwargs), run while the response objects hold `heap`
Invoke(heap, bound, kwargs) ==
    IF Binds(bound.func, kwargs)
    THEN Body(bound.func, bound.self,
              heap[assertors[bound.self].response], kwargs)
    ELSE Raised("TypeError", NoMsg)

\* the response objects as bound(**kwargs) leaves them
InvokeEffect(heap, bound, kwargs) ==
    IF Binds(bound.func, kwargs)
    THEN LET rid == assertors[bound.self].response
         IN  [heap EXCEPT ![rid] = BodyEffect(bound.func, heap[rid], kwargs)]
    ELSE heap

\* an operation that ends without a return statement
ReturnNone(self, raised) == 0

\* `return self`, the last statement of every operation and of
\* assert_from_config, reached when nothing was raised (0: no value)
ReturnSelf(self, raised) == IF raised THEN 0 ELSE self

\* ------------------------------------------------------ the registry
\* a dict literal that also registers the date-header operation
BuildAssertionMapWithHeaderDate(self) ==
    [name \in DOMAIN RegisteredMethod \cup {"header_date"} |->
        BoundMethod(self, IF name = "header_date" THEN "assert_header_date"
                          ELSE RegisteredMethod[name])]

\* the dict literal of _initialize_assertion_map: every name bound to the
\* method of the instance that runs the initialisation
BuildAssertionMap(self) ==
    [name \in DOMAIN RegisteredMethod |->
        BoundMethod(self, RegisteredMethod[name])]

EmptyMap == [name \in {} |-> BoundMethod(0, "")]

\* an initialisation without the `if not _ASSERTION_MAP` guard
initialize_assertion_map_unguarded(map, self) ==
    [name \in DOMAIN RegisteredMethod |->
        BoundMethod(self, RegisteredMethod[name])]

\* _initialize_assertion_map, called by __init__ of instance `self`
initialize_assertion_map(map, self) ==
    IF DOMAIN map = {} THEN BuildAssertionMap(self) ELSE map

\* ------------------------------------------------- assert_from_config
\* an exception leaving assert_from_config: its class, the statement that
\* raised it, and what its message and chaining carry (idx = -1, atype = "",
\* typename = "", shown = {} when the message has no such part)
Error(exc, site, idx, atype, typename, shown, cause, context) ==
    [ exc |-> exc, site |-> site, idx |-> idx, atype |-> atype,
      typename |-> typename, shown |-> shown,
      cause |-> cause, context |-> context ]

NoError == Error("", "", -1, "", "", {}, "", "")

\* the exception raised by json.dumps on a value it cannot serialize,
\* raised while `context` (if any) was being handled
JsonDumpsError(context) ==
    Error("TypeError", "json.dumps", -1, "", "", {}, "", context)

\* line 357: `raise TypeError` for an assert_config that is not a list
NotListError(assert_config) ==
    Error("TypeError", "not list", -1, "", assert_config.t, {}, "", "")

\* line 363: `raise TypeError` for an item that is not a dict
NotDictError(idx, assert_item) ==
    Error("TypeError", "not dict", idx, "", assert_item.t, {}, "", "")

\* lines 367-369: `raise ValueError(... json.dumps(assert_item) ...)`
MissingTypeError(idx, item) ==
    IF JsonDumpable(item)
    THEN Error("ValueError", "missing type", idx, "", "", {}, "", "")
    ELSE JsonDumpsError("")

\* an unknown type reported with the wrapper's exception class
UnknownTypeErrorAsRuntimeError(map, idx, assert_type, popped) ==
    Error("RuntimeError", "unknown type", idx, assert_type, "",
          DOMAIN map, "", "")

\* lines 374-379: `raise ValueError(... supported_types ... json.dumps ...)`
UnknownTypeError(map, idx, assert_type, popped) ==
    IF JsonDumpable(popped)
    THEN Error("ValueError", "unknown type", idx, assert_type, "",
               DOMAIN map, "", "")
    ELSE JsonDumpsError("")

\* lines 384-389: `raise RuntimeError(... json.dumps ...) from e`
WrappedError(idx, assert_type, popped, result) ==
    IF JsonDumpable(popped)
    THEN Error("RuntimeError", "wrapped", idx, assert_type, "", {},
               result.exc, result.exc)
    ELSE JsonDumpsError(result.exc)

Outcome(items, heap, log, err) ==
    [ items |-> items, heap |-> heap, log |-> log,
      raised |-> err.exc # "", err |-> err ]

\* one entry of the invocation log: the registered operation called for the
\* record at Python index idx, the instance it ran on and how it ended
Invocation(idx, atype, bound, kwargs, result) ==
    [ idx |-> idx, atype |-> atype, self |-> bound.self,
      func |-> bound.func, kwargs |-> kwargs, result |-> result ]

\* lines 382-389: the operation has been invoked and ended as `result`,
\* leaving the response objects as heap2
Invoked(items2, heap2, log, idx, assert_type, bound, popped, result) ==
    Outcome(items2, heap2,
            Append(log, Invocation(idx, assert_type, bound, popped, result)),
            IF result.raised
            THEN WrappedError(idx, assert_type, popped, result)
            ELSE NoError)

\* lines 373-389: the lookup of the popped type and the call of its operation
Dispatch(map, heap, items2, log, idx, assert_type, popped) ==
    IF assert_type \notin DOMAIN map
    THEN Outcome(items2, heap, log,
                 UnknownTypeError(map, idx, assert_type, popped))
    ELSE Invoked(items2, InvokeEffect(heap, map[assert_type], popped), log,
                 idx, assert_type, map[assert_type], popped,
                 Invoke(heap, map[assert_type], popped))

\* one pass through the body of the for loop, for the record at position i
\* (1-based in items; idx = i - 1 is enumerate's index)
LoopBody(map, heap, items, i, log) ==
    IF items[i].t # "dict"
    THEN Outcome(items, heap, log, NotDictError(i - 1, items[i]))
    ELSE IF "type" \notin DOMAIN items[i].v
    THEN Outcome(items, heap, log, MissingTypeError(i - 1, items[i].v))
    ELSE Dispatch(map, heap,
                  [items EXCEPT ![i] = PyDict(DictWithout(items[i].v, "type"))],
                  log, i - 1, items[i].v["type"].v,
                  DictWithout(items[i].v, "type"))

\* a loop that swallows the failure of an operation and goes on
RECURSIVE ConfigLoopCollectAll(_, _, _)
ConfigLoopCollectAll(map, out, i) ==
    IF out.raised /\ out.err.site # "wrapped" THEN out
    ELSE IF i > Len(out.items)
    THEN Outcome(out.items, out.heap, out.log, NoError)
    ELSE ConfigLoopCollectAll(
             map, LoopBody(map, out.heap, out.items, i, out.log), i + 1)

\* `for idx, assert_item in enumerate(assert_config)`, from position i on,
\* entered with the outcome `out` of the items before i: a raise in the body
\* leaves the loop
RECURSIVE ConfigLoop(_, _, _)
ConfigLoop(map, out, i) ==
    IF out.raised \/ i > Len(out.items) THEN out
    ELSE ConfigLoop(map, LoopBody(map, out.heap, out.items, i, out.log),
                    i + 1)

\* what a call leaves behind when its loop ended as `out` on a sequence of
\* type t
Finished(t, out) ==
    [ config |-> [t |-> t, v |-> out.items], heap |-> out.heap,
      log |-> out.log, raised |-> out.raised, err |-> out.err ]

\* an isinstance check that lets any sequence through
assert_from_config_any_sequence(map, heap, assert_config) ==
    IF assert_config.t \notin {"list", "tuple"}
    THEN [ config |-> assert_config, heap |-> heap, log |-> <<>>,
           raised |-> TRUE, err |-> NotListError(assert_config) ]
    ELSE Finished(assert_config.t,
                  ConfigLoop(map, Outcome(assert_config.v, heap, <<>>,
                                          NoError), 1))

\* assert_from_config(self, assert_config): the object and the response
\* objects it leaves behind, the operations it invoked and the error it
\* raised (if any).  The instance is used only to reach the class attribute
\* (map) and as the return value.
assert_from_config(map, heap, assert_config) ==
    IF assert_config.t # "list"
    THEN [ config |-> assert_config, heap |-> heap, log |-> <<>>,
           raised |-> TRUE, err |-> NotListError(assert_config) ]
    ELSE Finished("list",
                  ConfigLoop(map, Outcome(assert_config.v, heap, <<>>,
                                          NoError), 1))

\* --------------------------------------------------------------- inputs
\* names that are not registered; the first two exist as direct operations
OtherNames == {"header_date", "business_rule", "unknown_kind"}
AllNames == DOMAIN RegisteredMethod \cup OtherNames

\* the items a caller puts in a record list
ArgRecords ==
    { PyDict([type |-> PyStr("status_code"), expected_code |-> PyInt(200)]),
      PyDict([type |-> PyStr("status_code"), expected_code |-> PyInt(404)]),
      PyDict([type |-> PyStr("status_code"), expected_code |-> PyDate(1)]),
      PyDict([type |-> PyStr("is_permanent_redirect")]),
      PyDict([type |-> PyStr("is_ok"), bogus |-> PyInt(1)]),
      PyDict([type |-> PyStr("unknown_kind")]),
      PyDict([type |-> PyStr("unknown_kind"), expected_code |-> PyDate(1)]),
      PyDict([expected_code |-> PyInt(200)]),
      PyDict([expected_code |-> PyDate(1)]) }
NonDictItems == { PyStr("is_ok") }
ItemPool == ArgRecords \cup NonDictItems

\* a record with nothing but a type, for every name
BareRecords == { PyDict([type |-> PyStr(n)]) : n \in AllNames }

SeqsUpTo(S, n) == UNION { [1..k -> S] : k \in 0..n }

\* the arguments a caller passes as assert_config
ConfigInputs ==
    { PyList(items) : items \in SeqsUpTo(ItemPool, MaxLen) }
    \cup { PyList(<<r>>) : r \in BareRecords }
    \cup { PyTuple(items) : items \in SeqsUpTo(ArgRecords, 1) }
    \cup { PyNone, PyStr("status_code"),
           PyDict([type |-> PyStr("is_ok")]) }

\* -------------------------------------------------------------- actions
NoArgs == [op |-> "none"]

Init ==
    /\ assertors = <<>>
    /\ ASSERTION_MAP = EmptyMap
    /\ config \in ConfigInputs
    /\ runs = <<>>
    /\ responses = <<>>
    /\ calls = <<>>
    /\ args = NoArgs
    /\ threads = <<>>

\* __init__(self, response) for the new instance, bound to the response
\* object rid
init(rid) ==
    /\ assertors' = Append(assertors,
            [ response |-> rid,
              request_id |-> RequestIdOf(responses'[rid]) ])
    /\ ASSERTION_MAP' =
            initialize_assertion_map(ASSERTION_MAP, Len(assertors) + 1)

\* ResponseAssertor(response) on a response just received, as the
\* response_assert fixture is used by the tests
Construct(response) ==
    /\ Len(assertors) < MaxAssertors
    /\ responses' = Append(responses, response)
    /\ init(Len(responses) + 1)
    /\ UNCHANGED <<config, runs, calls, args, threads>>

\* the state after a call on `self` that ended as `out`
Ran(self, out) ==
    /\ config' = out.config
    /\ responses' = out.heap
    /\ runs' = Append(runs,
            [ self |-> self, before |-> config, after |-> out.config,
              raised |-> out.raised, err |-> out.err, log |-> out.log,
              ret |-> ReturnSelf(self, out.raised) ])

\* assertors[self].assert_from_config(config)
CallAssertFromConfig(self) ==
    /\ Len(runs) < MaxRuns
    /\ Ran(self, assert_from_config(ASSERTION_MAP, responses, config))
    /\ UNCHANGED <<assertors, ASSERTION_MAP, calls, args, threads>>

Next ==
    \/ \E response \in Responses : Construct(response)
    \/ \E self \in 1..Len(assertors) : CallAssertFromConfig(self)

Spec == Init /\ [][Next]_vars

\* ------------------------------------------------------- direct calls
\* the status codes of the responses the operations are called on
DirectStatusCodes == {100, 200, 204, 299, 300, 301, 302, 308, 400, 404, 500}

DirectResponses ==
    { Response(c, l, "r1", "utf-8", Ascii(PyDict([a |-> PyInt(1)]))) :
        c \in DirectStatusCodes, l \in BOOLEAN }

NoKwargs == [k \in {} |-> PyNone]

\* the operations a test calls directly, with their keyword arguments
DirectCalls ==
    { [func |-> "assert_status_code",
       kwargs |-> [expected_code |-> PyInt(200)]],
      [func |-> "assert_is_ok", kwargs |-> NoKwargs],
      [func |-> "assert_json_contains",
       kwargs |-> [expected_dict |-> PyDict([a |-> PyInt(1)]),
                   encoding |-> PyStr("latin-1")]],
      [func |-> "assert_is_redirect", kwargs |-> NoKwargs],
      [func |-> "assert_is_permanent_redirect", kwargs |-> NoKwargs] }

DirectConfigs == { PyList(<<PyDict([type |-> PyStr("is_ok")])>>) }

\* one response has been received; nothing is bound to it yet
InitDirect ==
    /\ assertors = <<>>
    /\ ASSERTION_MAP = EmptyMap
    /\ config \in DirectConfigs
    /\ runs = <<>>
    /\ responses \in { <<r>> : r \in DirectResponses }
    /\ calls = <<>>
    /\ args = NoArgs
    /\ threads = <<>>

\* ResponseAssertor(response) on the response object rid
ConstructOn(rid) ==
    /\ Len(assertors) < MaxAssertors
    /\ UNCHANGED responses
    /\ init(rid)
    /\ UNCHANGED <<config, runs, calls, args, threads>>

\* a call of an operation as it is recorded: how it ended and what it
\* returned, and its bound response object rid before and after
Called(self, func, kwargs, rid, result, heap2) ==
    [ kind |-> "assertion",
      self |-> self, func |-> func, kwargs |-> kwargs,
      result |-> result,
      ret |-> ReturnSelf(self, result.raised),
      bound |-> rid, before |-> responses[rid],
      after |-> heap2[rid] ]

\* assertors[self].<func>(**kwargs)
DirectCall(self, func, kwargs) ==
    /\ Len(calls) < MaxCalls
    /\ responses' = InvokeEffect(responses, BoundMethod(self, func), kwargs)
    /\ calls' = Append(calls,
            Called(self, func, kwargs, assertors[self].response,
                   Invoke(responses, BoundMethod(self, func), kwargs),
                   responses'))
    /\ UNCHANGED <<assertors, ASSERTION_MAP, config, runs, args, threads>>

NextDirect ==
    \/ \E rid \in 1..Len(responses) : ConstructOn(rid)
    \/ \E self \in 1..Len(assertors) : \E c \in DirectCalls :
            DirectCall(self, c.func, c.kwargs)
    \/ \E self \in 1..Len(assertors) : CallAssertFromConfig(self)

SpecDirect == InitDirect /\ [][NextDirect]_vars

\* ------------------------------------------------ calls on JSON bodies
\* a body whose bytes are not ASCII: decoded as UTF-8 and as Latin-1
AccentedBody ==
    Content(PyDict([a |-> PyStr("e-acute")]),
            PyDict([a |-> PyStr("A-tilde copyright")]))

\* JSON objects as bodies
ObjectDocs ==
    { PyDict([a |-> PyInt(1), b |-> PyDict([c |-> PyInt(1), d |-> PyInt(2)])]),
      PyDict([a |-> PyBool(TRUE), b |-> PyDict([c |-> PyList(<<PyInt(1)>>)])]),
      PyDict([a |-> PyDict([c |-> PyInt(1)]), b |-> PyInt(2)]),
      PyDict([b |-> EmptyDict]),
      EmptyDict }

\* bodies that are no JSON object
OtherDocs == { PyList(<<PyDict([a |-> PyInt(1)])>>), PyInt(5), NotJson }

ContainsResponses ==
    { Response(200, FALSE, "r1", e, Ascii(doc)) :
        e \in {"utf-8", NoEncoding}, doc \in ObjectDocs \cup OtherDocs }
    \cup { Response(200, FALSE, "r1", e, AccentedBody) :
             e \in {"utf-8", NoEncoding, "latin-1"} }

ExpectedDicts ==
    { EmptyDict,
      PyDict([a |-> PyInt(1)]),
      PyDict([a |-> PyInt(2)]),
      PyDict([z |-> PyInt(1)]),
      PyDict([b |-> EmptyDict]),
      PyDict([b |-> PyDict([c |-> PyInt(1)])]),
      PyDict([b |-> PyDict([c |-> PyList(<<PyInt(1)>>)])]),
      PyDict([a |-> PyInt(1), b |-> PyDict([d |-> PyInt(2)])]),
      PyDict([a |-> PyDict([c |-> PyInt(1)])]),
      PyDict([a |-> PyStr("e-acute")]) }

ContainsKwargs ==
    { [expected_dict |-> e] : e \in ExpectedDicts }
    \cup { [expected_dict |-> e, encoding |-> enc] :
             e \in ExpectedDicts,
             enc \in {PyNone, PyStr("utf-8"), PyStr("latin-1")} }

\* a response and the arguments the caller is about to pass
Case(response, a) == [response |-> response, args |-> a]

AssertCases ==
    { Case(r, [op |-> "assert", func |-> "assert_json_contains",
               kwargs |-> kw]) :
        r \in ContainsResponses, kw \in ContainsKwargs }

\* JSON documents to extract fields from
SpecExample ==
    PyDict([a |-> PyDict([b |-> PyList(<<PyDict([c |-> PyInt(1)]),
                                         PyDict([c |-> PyInt(2)])>>)])])
NestedObject ==
    PyDict(("a" :> PyDict(("a" :> PyList(<<PyInt(7), PyInt(8)>>))
                          @@ ("0" :> PyInt(1))))
           @@ ("0" :> PyList(<<PyInt(5)>>))
           @@ ("1" :> PyStr("x"))
           @@ ("-" :> PyNone))
RootArray ==
    PyList(<<PyDict([a |-> PyInt(3)]), PyList(<<PyInt(4)>>), PyStr("x")>>)

FieldDocs ==
    { SpecExample, NestedObject, RootArray, PyStr("x"), PyInt(5), PyNone,
      NotJson }

\* the characters of the paths tried exhaustively
PathAlphabet == {"a", ".", "[", "]", "0", "1", "-"}
ShortPaths == SeqsUpTo(PathAlphabet, MaxPathLen)

LongPaths ==
    { <<"a", ".", "b", "[", "1", "]", ".", "c">>,
      <<"a", ".", "b", "[", "0", "]">>,
      <<"a", ".", "b", "[", "2", "]", ".", "c">>,
      <<"a", ".", "b">>,
      <<"a", "[", "0", "]">>,
      <<"a", "[", "1", "]">>,
      <<"a", "[", "2", "]">>,
      <<"a", ".", "a", "[", "1", "]">>,
      <<"a", ".", "a", "[", "2", "]">>,
      <<"a", ".", "0">>,
      <<"[", "0", "]", ".", "a">>,
      <<"[", "1", "]", "[", "0", "]">>,
      <<"[", "-", "1", "]">>,
      <<"[", "-", "3", "]">>,
      <<"[", "-", "4", "]">>,
      <<"a", "[", "-", "1", "]">>,
      <<"a", "[", "0", "]", "a">>,
      <<"a", "[", "0", "]", "[", "0", "]">>,
      <<"a", ".", "[", "0", "]">>,
      <<"a", ".", "a", ".", "[", "1", "]">>,
      <<"1", "[", "0", "]">>,
      <<"[", "[", "0", "]">>,
      <<"[", "0", "]", "]">>,
      <<"a", "[", "0", ".", "1", "]">>,
      <<"[", "0", ".", "1", "]">>,
      <<"a", ".", "a", "[", "1", "]", ".", "a">>,
      <<"[", "2", "]", "[", "0", "]">>,
      <<"[", "0", "1", "]">>,
      <<"a", ".", "a", "[", "0", "1", "]">>,
      <<"a", ".", ".", "a">>,
      <<"0", "[", "0", "]">>,
      <<"a", ".", "a", "[", "1">>,
      <<"a", ".", "b", "[", "1", "]", "c">>,
      <<"a", ".", "b", "[", "1", "]", "[", "0", "]">>,
      <<"a", ".", "b", "[", "-", "1", "]">>,
      <<"0", "[", "0", "]", "0">>,
      <<"0", "[", "0", "]", "[", "0", "]">> }

FieldPaths == ShortPaths \cup LongPaths

FieldDefaults == { PyNone, PyStr("MISSING") }

FieldCases ==
    { Case(Response(200, FALSE, "r1", "utf-8", Ascii(doc)),
           [op |-> "field", field_path |-> path, default |-> d,
            encoding |-> PyNone]) :
        doc \in FieldDocs, path \in FieldPaths, d \in FieldDefaults }
    \cup
    { Case(Response(200, FALSE, "r1", e, AccentedBody),
           [op |-> "field", field_path |-> <<"a">>, default |-> PyNone,
            encoding |-> enc]) :
        e \in {"utf-8", NoEncoding},
        enc \in {PyNone, PyStr(""), PyStr("latin-1")} }

\* bodies to project aliases from
FilterDocs ==
    { PyDict([a |-> PyDict([b |-> PyInt(5)]), n |-> PyNone, z |-> PyInt(0),
              f |-> PyBool(FALSE), e |-> PyStr("")]),
      PyDict([a |-> EmptyDict]),
      PyList(<<PyDict([a |-> PyInt(1)])>>),
      PyInt(5), PyStr("x"), NotJson }

\* the (path, alias) items of the keep_mapping dicts
ItemsPool ==
    { [path |-> <<"a", ".", "b">>, alias |-> "alias1"],
      [path |-> <<"n">>, alias |-> "alias2"],
      [path |-> <<"z">>, alias |-> "alias3"],
      [path |-> <<"f">>, alias |-> "alias4"],
      [path |-> <<"e">>, alias |-> "alias5"],
      [path |-> <<"x">>, alias |-> "alias6"],
      [path |-> <<"[", "0", "]", ".", "a">>, alias |-> "alias7"] }

\* dicts of up to MaxItems items with distinct paths (and aliases)
KeepMappings ==
    { PyDict(items) : items \in
        { q \in SeqsUpTo(ItemsPool, MaxItems) :
            \A i \in 1..Len(q) : \A k \in 1..Len(q) :
                i # k => q[i] # q[k] } }

FilterDefaults ==
    { PyNone, EmptyDict,
      PyDict([alias2 |-> PyInt(9)]),
      PyDict([alias1 |-> PyInt(1), alias6 |-> PyInt(6), other |-> PyInt(0)]) }

FilteredCases ==
    { Case(Response(200, FALSE, "r1", "utf-8", Ascii(doc)),
           [op |-> "filtered", keep_mapping |-> km, default |-> d,
            encoding |-> PyNone]) :
        doc \in FilterDocs, km \in KeepMappings \cup {PyList(<<>>)},
        d \in FilterDefaults }

\* bodies to evaluate JSONPath expressions on
PathDocs ==
    { PyDict([a |-> PyList(<<PyInt(1), PyInt(2)>>), b |-> PyList(<<PyInt(7)>>),
              c |-> PyList(<<>>), d |-> PyInt(5)]),
      PyList(<<PyInt(1)>>), PyInt(5), PyNone, NotJson }

JsonPaths ==
    { [kind |-> "root", key |-> ""], [kind |-> "invalid", key |-> ""] }
    \cup { [kind |-> k, key |-> key] :
             k \in {"child", "each"}, key \in {"a", "b", "c", "d", "x"} }

\* the expressions of the model that make [*] iterate over a list
JsonPathsFor(doc) ==
    { e \in JsonPaths : e.kind = "each" /\ doc.t = "dict" => e.key # "d" }

PathCases ==
    { Case(Response(200, FALSE, "r1", "utf-8", Ascii(doc)),
           [op |-> "path", jsonpath_expr |-> e, default |-> d,
            encoding |-> PyNone]) :
        doc \in PathDocs, e \in JsonPaths,
        d \in {PyNone, PyStr("MISSING"), PyInt(5)} }

JsonCases ==
    AssertCases \cup FieldCases \cup FilteredCases
    \cup { c \in PathCases :
             c.args.jsonpath_expr
                \in JsonPathsFor(Decoded(c.response)) }

\* an assertor has been constructed on the response received
InitJson ==
    \E c \in JsonCases :
        /\ responses = <<c.response>>
        /\ args = c.args
        /\ assertors = << [ response |-> 1,
                            request_id |-> RequestIdOf(c.response) ] >>
        /\ ASSERTION_MAP = BuildAssertionMap(1)
        /\ config = PyList(<<>>)
        /\ runs = <<>>
        /\ calls = <<>>
        /\ threads = <<>>

\* assertor.<args.func>(**args.kwargs)
CallAssertion ==
    /\ args.op = "assert"
    /\ DirectCall(1, args.func, args.kwargs)

\* a call of a ClientBase function as it is recorded
ClientCall(func, before, out) ==
    [ kind |-> "client", func |-> func, kwargs |-> args,
      before |-> before, after |-> out.response,
      exc |-> out.exc, value |-> out.value ]

\* client.extract_json_field(response, **args)
CallExtractJsonField ==
    /\ args.op = "field"
    /\ Len(calls) < MaxCalls
    /\ LET out == extract_json_field(responses[1], args.field_path,
                                     args.default, args.encoding)
       IN  /\ responses' = [responses EXCEPT ![1] = out.response]
           /\ calls' = Append(calls, ClientCall("extract_json_field",
                                                responses[1], out))
    /\ UNCHANGED <<assertors, ASSERTION_MAP, config, runs, args, threads>>

\* client.extract_json_filtered(response, **args)
CallExtractJsonFiltered ==
    /\ args.op = "filtered"
    /\ Len(calls) < MaxCalls
    /\ LET out == extract_json_filtered(responses[1], args.keep_mapping,
                                        args.default, args.encoding)
       IN  /\ responses' = [responses EXCEPT ![1] = out.response]
           /\ calls' = Append(calls, ClientCall("extract_json_filtered",
                                                responses[1], out))
    /\ UNCHANGED <<assertors, ASSERTION_MAP, config, runs, args, threads>>

\* client.extract_json_path(response, **args)
CallExtractJsonPath ==
    /\ args.op = "path"
    /\ Len(calls) < MaxCalls
    /\ LET out == extract_json_path(responses[1], args.jsonpath_expr,
                                    args.default, args.encoding)
       IN  /\ responses' = [responses EXCEPT ![1] = out.response]
           /\ calls' = Append(calls, ClientCall("extract_json_path",
                                                responses[1], out))
    /\ UNCHANGED <<assertors, ASSERTION_MAP, config, runs, args, threads>>

NextJson ==
    \/ CallAssertion
    \/ CallExtractJsonField
    \/ CallExtractJsonFiltered
    \/ CallExtractJsonPath

SpecJson == InitJson /\ [][NextJson]_vars

\* ------------------------------------------------------- chained calls
\* a.op1(...).op2(...) ... as the tests write it, on a response that took
\* some time, with operations that are not in the registry as well
\* (durations below 2^31 microseconds, about 35 minutes)
Durations ==
    { Timedelta(0, 0, 100), Timedelta(0, 0, 999999), Timedelta(0, 1, 0),
      Timedelta(0, 1, 1), Timedelta(0, 61, 0) }

ChainResponses ==
    { Timed(Response(code, FALSE, rid, "utf-8", Ascii(EmptyDict)), e) :
        code \in {200, 404}, rid \in {"r1", NoAttr}, e \in Durations }

\* the values passed as max_seconds: 0.0001, 1, 1.000001, 60, 0 and a str
MaxSeconds ==
    { PyFloat(100), PyInt(1), PyFloat(1000001), PyInt(60), PyInt(0),
      PyStr("1") }

LongText == [i \in 1..(ErrorTextLimit + 1) |-> "x"]

\* the rule functions a test passes (the last value is no function)
Rules ==
    { PyFunction(Returns(PyBool(TRUE))),
      PyFunction(Returns(PyBool(FALSE))),
      PyFunction(Returns(PyInt(1))),
      PyFunction(Returns(PyNone)),
      PyFunction(Returns(PyStr("yes"))),
      PyFunction(ReturnsStatusIs200),
      PyFunction(Raises("ValueError", <<"b", "a", "d">>)),
      PyFunction(Raises("AssertionError", <<>>)),
      PyFunction(Raises("KeyError", LongText)),
      PyFunction(Raises("KeyboardInterrupt", <<>>)),
      PyFunction(Raises("SystemExit", <<"1">>)),
      PyNone }

ChainCalls ==
    { [func |-> "assert_status_code",
       kwargs |-> [expected_code |-> PyInt(200)]],
      [func |-> "assert_is_ok", kwargs |-> NoKwargs] }
    \cup { [func |-> "assert_elapsed_less_than",
            kwargs |-> [max_seconds |-> m]] : m \in MaxSeconds }
    \cup { [func |-> "assert_business_rule",
            kwargs |-> [rule_func |-> f, rule_desc |-> PyStr("rule")]] :
             f \in Rules }

Chains == SeqsUpTo(ChainCalls, MaxCalls)

\* an assertor has been constructed on the response received, and the
\* test is about to evaluate a chain of calls on it
InitChain ==
    \E response \in ChainResponses : \E chain \in Chains :
        /\ responses = <<response>>
        /\ args = [op |-> "chain", chain |-> chain]
        /\ assertors = << [ response |-> 1,
                            request_id |-> RequestIdOf(response) ] >>
        /\ ASSERTION_MAP = BuildAssertionMap(1)
        /\ config = PyList(<<>>)
        /\ runs = <<>>
        /\ calls = <<>>
        /\ threads = <<>>

\* the object the k-th call of the chain is made on: the assertor for the
\* first call, what the call before returned for the others
Receiver(k) == IF k = 1 THEN 1 ELSE calls[k - 1].ret

\* the next call of the chain; an exception raised by the call before has
\* left the expression
ChainStep ==
    /\ args.op = "chain"
    /\ Len(calls) < Len(args.chain)
    /\ calls # <<>> => ~calls[Len(calls)].result.raised
    /\ DirectCall(Receiver(Len(calls) + 1),
                  args.chain[Len(calls) + 1].func,
                  args.chain[Len(calls) + 1].kwargs)

NextChain == ChainStep

SpecChain == InitChain /\ [][NextChain]_vars

\* ------------------------------------------------------------- threads
\* Several threads, each constructing its own ResponseAssertor and running
\* assert_from_config on it.  Nothing in the class takes a lock, so the
\* threads interleave between any two statements: the test of
\* _initialize_assertion_map and its assignment are separate steps.
ThreadIds == 1..MaxThreads

\* the types of the records the threads' config lists hold
LookupNames == {"status_code", "is_ok"}

\* a thread that has not started __init__
NewThread == [pc |-> "init", self |-> 0, assigned |-> FALSE, looked |-> <<>>]

InitThreads ==
    /\ assertors = <<>>
    /\ ASSERTION_MAP = EmptyMap
    /\ config = PyList(<<>>)
    /\ runs = <<>>
    /\ responses = <<>>
    /\ calls = <<>>
    /\ args = NoArgs
    /\ threads = [t \in ThreadIds |-> NewThread]

\* __init__ up to the call of _initialize_assertion_map: the instance
\* exists and is bound to its response
ThreadInit(t, response) ==
    /\ threads[t].pc = "init"
    /\ responses' = Append(responses, response)
    /\ assertors' = Append(assertors,
            [ response |-> Len(responses) + 1,
              request_id |-> RequestIdOf(response) ])
    /\ threads' = [threads EXCEPT ![t].pc = "check",
                                  ![t].self = Len(assertors) + 1]
    /\ UNCHANGED <<ASSERTION_MAP, config, runs, calls, args>>

\* `if not ResponseAssertor._ASSERTION_MAP:` the thread reads the class
\* attribute and takes the branch
ThreadCheck(t) ==
    /\ threads[t].pc = "check"
    /\ threads' = [threads EXCEPT ![t].pc =
            IF DOMAIN ASSERTION_MAP = {} THEN "assign" ELSE "run"]
    /\ UNCHANGED <<assertors, ASSERTION_MAP, config, runs, responses,
                   calls, args>>

\* `ResponseAssertor._ASSERTION_MAP = {...}` with the bound methods of the
\* thread's own instance
ThreadAssign(t) ==
    /\ threads[t].pc = "assign"
    /\ ASSERTION_MAP' = BuildAssertionMap(threads[t].self)
    /\ threads' = [threads EXCEPT ![t].pc = "run", ![t].assigned = TRUE]
    /\ UNCHANGED <<assertors, config, runs, responses, calls, args>>

\* one record of the thread's assert_from_config: the operation that
\* `self._ASSERTION_MAP[assert_type]` yields
ThreadLookup(t, assert_type) ==
    /\ threads[t].pc = "run"
    /\ Len(threads[t].looked) < MaxLookups
    /\ assert_type \in DOMAIN ASSERTION_MAP
    /\ threads' = [threads EXCEPT ![t].looked =
            Append(@, [ name |-> assert_type,
                        op |-> ASSERTION_MAP[assert_type] ])]
    /\ UNCHANGED <<assertors, ASSERTION_MAP, config, runs, responses,
                   calls, args>>

NextThreads ==
    \/ \E t \in ThreadIds : \E response \in Responses :
          ThreadInit(t, response)
    \/ \E t \in ThreadIds : ThreadCheck(t)
    \/ \E t \in ThreadIds : ThreadAssign(t)
    \/ \E t \in ThreadIds : \E assert_type \in LookupNames :
          ThreadLookup(t, assert_type)

SpecThreads == InitThreads /\ [][NextThreads]_vars

\* ------------------------------------------------- parse_yaml_to_params
\* The cases of one case key of a YAML file, as yaml.safe_load returns
\* them: a list of dicts with the keys desc, data and assert_config.  The
\* text of a desc is a sequence of characters.

\* the code points of the characters of the data keys (ord of each one)
KeyCodePoints ==
    [ a |-> <<97>>, ab |-> <<97, 98>>, b |-> <<98>>, B |-> <<66>> ]

\* x < y for two sequences of code points, as Python compares str
RECURSIVE CodePointsLess(_, _)
CodePointsLess(x, y) ==
    IF x = <<>> THEN y # <<>>
    ELSE IF y = <<>> THEN FALSE
    ELSE IF x[1] # y[1] THEN x[1] < y[1]
    ELSE CodePointsLess(Tail(x), Tail(y))

StrLess(k1, k2) == CodePointsLess(KeyCodePoints[k1], KeyCodePoints[k2])

\* sorted(list(keys)) for a set of str
RECURSIVE sorted(_)
sorted(keys) ==
    IF keys = {} THEN <<>>
    ELSE LET least == CHOOSE k \in keys :
                          \A other \in keys \ {k} : StrLess(k, other)
         IN  <<least>> \o sorted(keys \ {least})

\* a lookup that fills a missing key with 0
data_get_zero(data, key) ==
    IF key \in DOMAIN data.v THEN data.v[key] ELSE PyInt(0)

\* case["data"].get(key, None)
data_get(data, key) ==
    IF key \in DOMAIN data.v THEN data.v[key] ELSE PyNone

Whitespace == {" ", "\t", "\n"}

RECURSIVE lstrip(_)
lstrip(chars) ==
    IF chars # <<>> /\ chars[1] \in Whitespace THEN lstrip(Tail(chars))
    ELSE chars

RECURSIVE rstrip(_)
rstrip(chars) ==
    IF chars # <<>> /\ chars[Len(chars)] \in Whitespace
    THEN rstrip(SubSeq(chars, 1, Len(chars) - 1))
    ELSE chars

\* str.strip()
strip(chars) == rstrip(lstrip(chars))

\* the exception load_yaml_cases raises for one case, "" when it is valid
CaseError(case) ==
    IF "desc" \notin DOMAIN case.v THEN "ValueError"
    ELSE IF "data" \notin DOMAIN case.v
             \/ "assert_config" \notin DOMAIN case.v THEN "ValueError"
    ELSE IF case.v.desc.t # "str" THEN "TypeError"
    ELSE ""

\* how parse_yaml_to_params ends when it raises
YamlRaised(exc) ==
    [ raised |-> TRUE, exc |-> exc,
      param_names |-> <<>>, param_values |-> <<>>, case_ids |-> <<>> ]

\* the three lists parse_yaml_to_params returns
YamlParams(cases, param_names) ==
    [ raised |-> FALSE, exc |-> "",
      param_names |-> param_names \o <<"assert_config">>,
      param_values |->
          [ c \in 1..Len(cases) |->
              [ i \in 1..Len(param_names) |->
                  data_get(cases[c].v.data, param_names[i]) ]
              \o <<cases[c].v.assert_config>> ],
      case_ids |-> [ c \in 1..Len(cases) |-> strip(cases[c].v.desc.v) ] ]

\* load_yaml_cases on a file whose case key holds `cases`: the exception
\* of the first case that fails the structure check, "" when all pass
load_yaml_cases(cases) ==
    IF \A i \in 1..Len(cases) : CaseError(cases[i]) = "" THEN ""
    ELSE CaseError(cases[CHOOSE i \in 1..Len(cases) :
                            /\ CaseError(cases[i]) # ""
                            /\ \A j \in 1..(i - 1) :
                                  CaseError(cases[j]) = ""])

\* parse_yaml_to_params on a file whose case key holds `cases`
parse_yaml_to_params(cases) ==
    IF load_yaml_cases(cases) # "" THEN YamlRaised(load_yaml_cases(cases))
    ELSE IF cases = <<>> THEN YamlRaised("ValueError")
    ELSE IF \E c \in 1..Len(cases) : cases[c].v.data.t # "dict"
    THEN YamlRaised("AttributeError")
    ELSE YamlParams(cases,
            sorted(UNION { DOMAIN cases[c].v.data.v : c \in 1..Len(cases) }))

\* the data of the cases
YamlData ==
    { PyDict(<<>>),
      PyDict([a |-> PyInt(1)]),
      PyDict([B |-> PyInt(2)]),
      PyDict([ab |-> PyNone]),
      PyDict([b |-> PyInt(3), a |-> PyInt(1)]),
      PyDict([ab |-> PyInt(4), B |-> PyNone]) }

YamlDescs == { PyStr(<<" ", "x", "\n">>), PyStr(<<"y", " ", "z">>) }

YamlAssertConfigs ==
    { PyList(<<>>), PyList(<<PyDict([type |-> PyStr("is_ok")])>>) }

\* well-formed cases, and cases that fail a check
YamlCases ==
    { PyDict([desc |-> d, data |-> data, assert_config |-> ac]) :
        d \in YamlDescs, data \in YamlData, ac \in YamlAssertConfigs }
    \cup
    { PyDict([data |-> PyDict(<<>>), assert_config |-> PyList(<<>>)]),
      PyDict([desc |-> PyStr(<<"y">>), data |-> PyDict(<<>>)]),
      PyDict([desc |-> PyInt(1), data |-> PyDict(<<>>),
              assert_config |-> PyList(<<>>)]),
      PyDict([desc |-> PyStr(<<"y">>), data |-> PyNone,
              assert_config |-> PyList(<<>>)]) }

InitYaml ==
    /\ assertors = <<>>
    /\ ASSERTION_MAP = EmptyMap
    /\ config = PyList(<<>>)
    /\ runs = <<>>
    /\ responses = <<>>
    /\ calls = <<>>
    /\ args \in { [op |-> "yaml", cases |-> cases] :
                    cases \in SeqsUpTo(YamlCases, MaxCases) }
    /\ threads = <<>>

\* parse_yaml_to_params(yaml_file, case_key), at import of a test module
ParseYaml ==
    /\ args.op = "yaml"
    /\ calls = <<>>
    /\ calls' = <<[ kind |-> "parse_yaml_to_params",
                    cases |-> args.cases,
                    result |-> parse_yaml_to_params(args.cases) ]>>
    /\ UNCHANGED <<assertors, ASSERTION_MAP, config, runs, responses,
                   args, threads>>

NextYaml == ParseYaml

SpecYaml == InitYaml /\ [][NextYaml]_vars

\* ---------------------------------------------------------- properties
RunIds == 1..Len(runs)

\* the 16 names of the registered vocabulary
Names16 ==
    { "status_code", "is_ok", "is_redirect", "is_permanent_redirect",
      "json_field", "json_path", "json_contains", "response_header",
      "cookie", "redirect_count", "redirect_chain", "content_contains",
      "content_length", "response_url", "query_param", "elapsed_less_than" }

\* the item of a run's argument at Python index idx is a dict with a type
HasTypeAt(r, idx) ==
    /\ r.before.t = "list"
    /\ idx + 1 \in 1..Len(r.before.v)
    /\ r.before.v[idx + 1].t = "dict"
    /\ "type" \in DOMAIN r.before.v[idx + 1].v

\* C1: assert_from_config called on an assertor evaluates every record
\* against that assertor's own response: each operation it invokes ends as
\* the same assertion method called directly on that assertor would end
\* (pass, or fail with the same expected and actual values), whatever other
\* assertors were created before.
C1_DispatchUsesOwnResponse ==
    \A k \in RunIds : \A j \in 1..Len(runs[k].log) :
        LET e == runs[k].log[j]
        IN  e.result = Invoke(responses, BoundMethod(runs[k].self, e.func),
                              e.kwargs)

\* C2: running assert_from_config twice with the same record list object,
\* on the same assertor or on assertors bound to equal responses, gives the
\* same outcome both times (a list that passed passes again).
C2_RerunSameOutcome ==
    \A k \in RunIds : \A m \in RunIds :
        ( /\ m = k + 1
          /\ runs[k].before.t = "list"
          /\ responses[assertors[runs[k].self].response]
               = responses[assertors[runs[m].self].response] )
        => /\ runs[m].raised = runs[k].raised
           /\ runs[m].err.exc = runs[k].err.exc

\* C3: assert_from_config invokes the operations of the records in list
\* order (the j-th invocation is for the record at index j - 1), and once an
\* operation raises nothing more is invoked and the call ends with an error.
C3_InOrderFailFast ==
    \A k \in RunIds :
        LET r == runs[k]
        IN  \A j \in 1..Len(r.log) :
                /\ r.log[j].idx = j - 1
                /\ HasTypeAt(r, j - 1)
                /\ r.log[j].atype = r.before.v[j].v["type"].v
                /\ r.log[j].result.raised => (j = Len(r.log) /\ r.raised)

\* a run whose first operation raised while a later record with a
\* registered type was waiting in the list
C3_Witness ==
    \E k \in RunIds :
        LET r == runs[k]
        IN  /\ Len(r.log) = 1
            /\ r.log[1].result.raised
            /\ r.raised
            /\ HasTypeAt(r, 1)
            /\ r.before.v[2].v["type"].v \in Names16

\* the run invoked and passed the operations of all records before Python
\* index idx, and nothing else
PassedBefore(r, idx) ==
    /\ Len(r.log) = idx
    /\ \A j \in 1..Len(r.log) : ~r.log[j].result.raised

TypeAt(r, idx) == r.before.v[idx + 1].v["type"].v

\* C4: if record i has a type that is not registered and records 0..i-1
\* passed, their operations were invoked and the call raises a ValueError
\* for index i whose message lists all registered type names.
C4_UnknownTypeIsValueError ==
    \A k \in RunIds : \A idx \in 0..MaxLen :
        LET r == runs[k]
        IN  ( /\ HasTypeAt(r, idx)
              /\ TypeAt(r, idx) \notin Names16
              /\ \A j \in 0..(idx - 1) :
                    HasTypeAt(r, j) /\ TypeAt(r, j) \in Names16
              /\ \A j \in 1..Len(r.log) : ~r.log[j].result.raised )
            => /\ Len(r.log) = idx
               /\ r.err.exc = "ValueError"
               /\ r.err.idx = idx
               /\ r.err.shown = Names16

ConfigSites == {"not list", "not dict", "missing type", "unknown type"}

\* C5 (as claimed): a configuration error at any position of the list is
\* raised before any operation of the list has been invoked, and is of a
\* different kind than the error raised for a failing assertion.
C5_ConfigErrorBeforeAnyOperation ==
    \A k \in RunIds :
        runs[k].err.site \in ConfigSites
        => /\ runs[k].log = <<>>
           /\ runs[k].err.exc # "RuntimeError"

\* C5 (amended): a configuration error for a non-list argument is raised
\* before any operation is invoked; a configuration error for record i is
\* raised after the operations of records 0..i-1 were invoked and passed and
\* before any operation of record i or of a later record; it is a TypeError
\* or a ValueError, and a RuntimeError is raised only for a failed operation.
C5_ConfigErrorBeforeLaterOperations ==
    \A k \in RunIds :
        LET r == runs[k]
        IN  /\ r.err.site \in ConfigSites
               => /\ r.err.exc \in {"TypeError", "ValueError"}
                  /\ PassedBefore(r, IF r.err.site = "not list" THEN 0
                                     ELSE r.err.idx)
            /\ r.err.exc = "RuntimeError"
               => /\ Len(r.log) > 0
                  /\ r.log[Len(r.log)].result.raised

\* an unknown type at index 1 reported after the operation of record 0 ran
C5_Witness ==
    \E k \in RunIds :
        /\ runs[k].err.site = "unknown type"
        /\ runs[k].err.idx = 1
        /\ Len(runs[k].log) = 1
        /\ runs[k].log[1].idx = 0

AllDicts(c) == \A i \in 1..Len(c.v) : c.v[i].t = "dict"

\* the first item that is not a dict is at idx, after records with
\* registered types
FirstNonDictAt(r, idx) ==
    /\ r.before.t = "list"
    /\ idx + 1 \in 1..Len(r.before.v)
    /\ r.before.v[idx + 1].t # "dict"
    /\ \A j \in 0..(idx - 1) : HasTypeAt(r, j) /\ TypeAt(r, j) \in Names16

\* C6 (as claimed): an argument that is not a sequence is rejected with a
\* TypeError before any operation; a record i that is not a mapping is
\* rejected with a TypeError naming i; no ordered sequence (list or
\* otherwise) of mapping records is rejected by these type checks.
C6_AnySequenceOfMappingsAccepted ==
    \A k \in RunIds :
        LET r == runs[k]
        IN  /\ r.before.t \notin {"list", "tuple", "str"}
               => r.err.exc = "TypeError" /\ r.log = <<>>
            /\ \A idx \in 0..MaxLen :
                 (FirstNonDictAt(r, idx) /\ PassedBefore(r, idx))
                 => /\ r.err.exc = "TypeError"
                    /\ r.err.site = "not dict"
                    /\ r.err.idx = idx
            /\ (r.before.t \in {"list", "tuple"} /\ AllDicts(r.before))
               => r.err.site \notin {"not list", "not dict"}

\* C6 (amended): an argument that is not a list (a tuple of records
\* included) is rejected with a TypeError before any operation and is left
\* as it was; a record i that is not a dict is rejected with a TypeError
\* naming i; no list of dict records is rejected by these type checks.
C6_OnlyListsOfDictsAccepted ==
    \A k \in RunIds :
        LET r == runs[k]
        IN  /\ r.before.t # "list"
               => /\ r.err.exc = "TypeError"
                  /\ r.err.site = "not list"
                  /\ r.err.typename = r.before.t
                  /\ r.log = <<>>
                  /\ r.after = r.before
            /\ \A idx \in 0..MaxLen :
                 (FirstNonDictAt(r, idx) /\ PassedBefore(r, idx))
                 => /\ r.err.exc = "TypeError"
                    /\ r.err.site = "not dict"
                    /\ r.err.idx = idx
            /\ (r.before.t = "list" /\ AllDicts(r.before))
               => r.err.site \notin {"not list", "not dict"}

\* a tuple holding one well-formed record was rejected by the list check
C6_Witness ==
    \E k \in RunIds :
        /\ runs[k].before.t = "tuple"
        /\ Len(runs[k].before.v) = 1
        /\ "type" \in DOMAIN runs[k].before.v[1].v
        /\ runs[k].err.site = "not list"

\* C7: a record without a type key makes the call raise a ValueError that
\* cites the record's index, and no operation is invoked for that record or
\* a later one.
C7_MissingTypeIsValueError ==
    \A k \in RunIds : \A idx \in 0..MaxLen :
        LET r == runs[k]
        IN  ( /\ r.before.t = "list"
              /\ idx + 1 \in 1..Len(r.before.v)
              /\ r.before.v[idx + 1].t = "dict"
              /\ "type" \notin DOMAIN r.before.v[idx + 1].v
              /\ \A j \in 0..(idx - 1) :
                    HasTypeAt(r, j) /\ TypeAt(r, j) \in Names16
              /\ PassedBefore(r, idx) )
            => /\ r.err.exc = "ValueError"
               /\ r.err.site = "missing type"
               /\ r.err.idx = idx

\* C8: when the operation invoked for record i raises (assertion failure or
\* keyword arguments that do not bind), the call raises an error that
\* names index i and the record's type and has the original error as its
\* cause; the call neither returns nor raises the original error bare.
C8_FailureIsWrapped ==
    \A k \in RunIds : \A j \in 1..Len(runs[k].log) :
        LET r == runs[k]
            e == r.log[j]
        IN  e.result.raised
            => /\ r.raised
               /\ r.err.exc = "RuntimeError"
               /\ r.err.idx = e.idx
               /\ r.err.atype = e.atype
               /\ r.err.cause = e.result.exc

\* the run invoked and passed the operations of all records before idx
\* (whatever came after)
Reached(r, idx) ==
    /\ Len(r.log) >= idx
    /\ \A j \in 1..idx : ~r.log[j].result.raised

\* C9: the registry holds exactly the 16 names; a record that is reached is
\* dispatched to an operation exactly when its type is one of them, and a
\* reached record with any other type ends the call with an error (the
\* unknown-type error listing the 16 names, when its message can be built).
C9_ExactlySixteenNames ==
    /\ Len(assertors) >= 1 => DOMAIN ASSERTION_MAP = Names16
    /\ \A k \in RunIds :
        LET r == runs[k]
        IN  /\ \A j \in 1..Len(r.log) : r.log[j].atype \in Names16
            /\ \A idx \in 0..MaxLen :
                 (HasTypeAt(r, idx) /\ Reached(r, idx))
                 => IF TypeAt(r, idx) \in Names16
                    THEN /\ Len(r.log) > idx
                         /\ r.log[idx + 1].atype = TypeAt(r, idx)
                    ELSE /\ Len(r.log) = idx
                         /\ r.raised
                         /\ r.err.site \in {"unknown type", "json.dumps"}
                         /\ r.err.site = "unknown type"
                            => /\ r.err.atype = TypeAt(r, idx)
                               /\ r.err.shown = Names16

\* header_date, which exists as a direct operation, was rejected as unknown
C9_Witness ==
    \E k \in RunIds :
        /\ HasTypeAt(runs[k], 0)
        /\ TypeAt(runs[k], 0) = "header_date"
        /\ runs[k].log = <<>>
        /\ runs[k].err.site = "unknown type"
        /\ runs[k].err.shown = Names16

\* C10: once the first ResponseAssertor exists, no step (construction of
\* another assertor, passing or failing assert_from_config) changes the
\* registry's names or the operation bound to a name.
C10_RegistryNeverChanges ==
    [][Len(assertors) >= 1 => ASSERTION_MAP' = ASSERTION_MAP]_vars

\* a second assertor was constructed and both a passing and a failing call
\* were made, with the registry still as the first assertor built it
C10_Witness ==
    /\ Len(assertors) >= 2
    /\ \E k \in RunIds : runs[k].raised
    /\ \E k \in RunIds : ~runs[k].raised /\ Len(runs[k].log) > 0
    /\ ASSERTION_MAP = BuildAssertionMap(1)

CallIds == 1..Len(calls)

\* C11: every assertion operation that passes, and assert_from_config when
\* all its records pass, returns the very instance it was called on (and
\* returns nothing when it raises), and that instance is bound to the same
\* response object after the call as before it.
C11_ReturnsSameBoundInstance ==
    /\ \A k \in CallIds :
          LET c == calls[k]
          IN  /\ ~c.result.raised => c.ret = c.self
              /\ c.result.raised => c.ret = 0
              /\ assertors[c.self].response = c.bound
    /\ \A k \in RunIds :
          /\ ~runs[k].raised => runs[k].ret = runs[k].self
          /\ runs[k].self \in 1..Len(assertors)

\* on the second assertor, an operation passed and returned, and
\* assert_from_config passed an operation and returned
C11_Witness ==
    /\ \E k \in CallIds :
          /\ calls[k].self = 2
          /\ ~calls[k].result.raised
          /\ calls[k].ret = 2
    /\ \E k \in RunIds :
          /\ runs[k].self = 2
          /\ ~runs[k].raised
          /\ Len(runs[k].log) = 1
          /\ runs[k].ret = 2

\* C19: assert_is_ok passes exactly when the response status code is in
\* 200..299 and raises an assertion failure for every other status code.
C19_OkIffStatus2xx ==
    \A k \in CallIds :
        LET c == calls[k]
        IN  (c.func = "assert_is_ok" /\ Binds(c.func, c.kwargs))
            => /\ ~c.result.raised <=> c.before.status_code \in 200..299
               /\ c.result.raised => c.result.exc = "AssertionError"

C12_ResponseNeverMutated ==
    \A k \in CallIds :
        calls[k].kind = "assertion" => calls[k].after = calls[k].before

\* every key of the expected dict is present in the body object with an
\* equal value, recursing where both values are dicts
RECURSIVE Includes(_, _)
Includes(body, expected) ==
    \A k \in DOMAIN expected.v :
        /\ k \in DOMAIN body.v
        /\ (body.v[k].t = "dict" /\ expected.v[k].t = "dict")
              => Includes(body.v[k], expected.v[k])
        /\ ~(body.v[k].t = "dict" /\ expected.v[k].t = "dict")
              => PyEq(body.v[k], expected.v[k])

IsName(seg) ==
    seg # <<>> /\ \A i \in 1..Len(seg) : seg[i] \notin {".", "[", "]"}

\* a bracketed non-negative integer
IsBareIndex(seg) ==
    /\ Len(seg) >= 3
    /\ seg[1] = "["
    /\ seg[Len(seg)] = "]"
    /\ AllDigits(SubSeq(seg, 2, Len(seg) - 1))

\* the position of the bracket in a segment `key[i]` (0: not of that form)
BracketAt(seg) ==
    IF \E q \in 2..Len(seg) :
            IsName(SubSeq(seg, 1, q - 1)) /\ IsBareIndex(SubSeq(seg, q, Len(seg)))
    THEN CHOOSE q \in 2..Len(seg) :
            IsName(SubSeq(seg, 1, q - 1)) /\ IsBareIndex(SubSeq(seg, q, Len(seg)))
    ELSE 0

IndexIn(seg) == Decimal(SubSeq(seg, 2, Len(seg) - 1))

\* the segments between the dots of a path
RECURSIVE DotSplit(_, _, _)
DotSplit(path, i, cur) ==
    IF i > Len(path) THEN <<cur>>
    ELSE IF path[i] = "." THEN <<cur>> \o DotSplit(path, i + 1, <<>>)
    ELSE DotSplit(path, i + 1, Append(cur, path[i]))

NotFound == [found |-> FALSE, value |-> PyNone]
Found(v) == [found |-> TRUE, value |-> v]

\* the element i of an array (nothing else has elements)
ElementOf(doc, i) ==
    IF doc.t = "list" /\ i < Len(doc.v) THEN Found(doc.v[i + 1])
    ELSE NotFound

\* the member of an object under a key
MemberOf(doc, name) ==
    IF doc.t = "dict" /\ Join(name) \in DOMAIN doc.v
    THEN Found(doc.v[Join(name)])
    ELSE NotFound

\* the value a path addresses in a document, following its segments from
\* position i on: bare keys in objects, key[i] in an object holding an
\* array, and [i] as the first segment on an array
RECURSIVE Follow(_, _, _)
Follow(doc, segs, i) ==
    IF i > Len(segs) THEN Found(doc)
    ELSE LET seg == segs[i]
             q == BracketAt(seg)
             next ==
                IF IsName(seg) THEN MemberOf(doc, seg)
                ELSE IF q > 0
                THEN LET m == MemberOf(doc, SubSeq(seg, 1, q - 1))
                     IN  IF m.found
                         THEN ElementOf(m.value,
                                        IndexIn(SubSeq(seg, q, Len(seg))))
                         ELSE NotFound
                ELSE IF i = 1 /\ IsBareIndex(seg)
                THEN ElementOf(doc, IndexIn(seg))
                ELSE NotFound
         IN  IF next.found THEN Follow(next.value, segs, i + 1)
             ELSE NotFound

Addressed(doc, path) ==
    IF doc.t = "invalid" THEN NotFound
    ELSE Follow(doc, DotSplit(path, 1, <<>>), 1)

\* C13: for every JSON body and every field path all of whose segments
\* resolve (bare keys in objects, key[i] and a leading [i] with i inside
\* the array), extract_json_field returns the addressed value, and
\* repeating the call on the same response returns the same value.
C13_ResolvedPathReturnsValue ==
    \A k \in CallIds :
        LET c == calls[k]
            r == Addressed(Decoded(c.after), c.kwargs.field_path)
        IN  (c.func = "extract_json_field" /\ r.found)
            => /\ c.exc = ""
               /\ c.value = r.value
               /\ (k + 1) \in CallIds => calls[k + 1].value = c.value

\* the spec's example a.b[1].c was extracted twice, with a default that is
\* not the value
C13_Witness ==
    /\ Len(calls) = 2
    /\ calls[1].func = "extract_json_field"
    /\ calls[1].kwargs.field_path
         = <<"a", ".", "b", "[", "1", "]", ".", "c">>
    /\ calls[1].kwargs.default = PyStr("MISSING")
    /\ calls[2].value = PyInt(2)

\* C14: for every response body (JSON of any shape, or not parsable as
\* JSON) and every path string in which some segment does not resolve,
\* including a bracket whose content is not an integer, extract_json_field
\* returns the caller's default and raises nothing.
C14_UnresolvedPathReturnsDefault ==
    \A k \in CallIds :
        LET c == calls[k]
            r == Addressed(Decoded(c.after), c.kwargs.field_path)
        IN  (c.func = "extract_json_field" /\ ~r.found)
            => /\ c.exc = ""
               /\ c.value = c.kwargs.default

\* C15: extract_json_filtered treats each (path, alias) pair of
\* keep_mapping independently: when the path resolves in the body,
\* result[alias] is the resolved value, whatever it is (including JSON
\* null, 0, false or an empty string); when it does not resolve,
\* result[alias] is default[alias] if the default mapping has that alias,
\* and the alias is absent from the result otherwise.
C15_EachAliasIndependently ==
    \A k \in CallIds :
        LET c == calls[k]
            km == c.kwargs.keep_mapping
            default == DefaultOrEmpty(c.kwargs.default)
        IN  (c.func = "extract_json_filtered" /\ km.t = "dict")
            => \A i \in 1..Len(km.v) :
                 LET alias == km.v[i].alias
                     r == Addressed(Decoded(c.after), km.v[i].path)
                 IN  IF r.found
                     THEN /\ alias \in DOMAIN c.value.v
                          /\ c.value.v[alias] = r.value
                     ELSE IF alias \in DOMAIN default.v
                     THEN /\ alias \in DOMAIN c.value.v
                          /\ c.value.v[alias] = default.v[alias]
                     ELSE alias \notin DOMAIN c.value.v

\* C16: when the response body is not a JSON object or array (a JSON
\* scalar, or a body not parsable as JSON), extract_json_filtered returns
\* the default mapping unchanged, with all of its entries, whatever
\* keep_mapping contains.
C16_NonContainerReturnsDefault ==
    \A k \in CallIds :
        LET c == calls[k]
        IN  ( /\ c.func = "extract_json_filtered"
              /\ Decoded(c.after).t \notin {"dict", "list"} )
            => c.value = DefaultOrEmpty(c.kwargs.default)

\* C18: extract_json_path returns the single matched value when the
\* expression has exactly one match in the body, the list of all matched
\* values in match order when it has more than one, and the caller's
\* default when it has no match or the body is not parsable as JSON.
C18_OneManyOrDefault ==
    \A k \in CallIds :
        LET c == calls[k]
            body == Decoded(c.after)
            found == IF body.t = "invalid" \/ c.kwargs.jsonpath_expr.kind = "invalid"
                     THEN <<>>
                     ELSE jsonpath_find(c.kwargs.jsonpath_expr, body)
        IN  c.func = "extract_json_path"
            => /\ c.exc = ""
               /\ Len(found) = 1 => c.value = found[1]
               /\ Len(found) > 1
                    => /\ c.value.t = "list"
                       /\ c.value.v = found
               /\ Len(found) = 0 => c.value = c.kwargs.default

\* an expression with two matches returned both, in order, and not the
\* default
C18_Witness ==
    \E k \in CallIds :
        /\ calls[k].func = "extract_json_path"
        /\ calls[k].kwargs.jsonpath_expr = [kind |-> "each", key |-> "a"]
        /\ calls[k].kwargs.default = PyStr("MISSING")
        /\ calls[k].value = PyList(<<PyInt(1), PyInt(2)>>)

\* a bracketed integer, with or without a sign
IsSignedIndex(seg) ==
    /\ Len(seg) >= 3
    /\ seg[1] = "["
    /\ seg[Len(seg)] = "]"
    /\ IsIntLiteral(SubSeq(seg, 2, Len(seg) - 1))

\* a segment with a bracketed index: `[i]` or `key[i]`
HasIndex(seg) == IsSignedIndex(seg) \/ BracketAt(seg) > 0

\* the value the bracket of such a segment is applied to, in doc
IndexedBy(doc, seg) ==
    IF IsSignedIndex(seg) THEN Found(doc)
    ELSE MemberOf(doc, SubSeq(seg, 1, BracketAt(seg) - 1))

\* the integer between the brackets of such a segment
IndexOf(seg) ==
    IF IsSignedIndex(seg) THEN IntOf(SubSeq(seg, 2, Len(seg) - 1))
    ELSE IndexIn(SubSeq(seg, BracketAt(seg), Len(seg)))

\* the bracket of the segment is applied to something that is no array, or
\* with an index outside 0 .. length - 1
BadIndex(doc, seg) ==
    /\ HasIndex(seg)
    /\ IndexedBy(doc, seg).found
    /\ \/ IndexedBy(doc, seg).value.t # "list"
       \/ IndexOf(seg) < 0
       \/ IndexOf(seg) >= Len(IndexedBy(doc, seg).value.v)

\* some segment of the path, reached through segments that resolve, has a
\* bad index
HasBadIndex(doc, segs) ==
    \E i \in 1..Len(segs) :
        LET reached == Follow(doc, SubSeq(segs, 1, i - 1), 1)
        IN  reached.found /\ BadIndex(reached.value, segs[i])

\* C25: a bracketed index resolves only on a JSON array with an index in
\* 0 .. length - 1: when a path reaches a bracketed index that is applied
\* to an object, a string, a number or null, or that is negative or out of
\* range, extract_json_field returns the default.
C25_IndexOnlyInsideArrays ==
    \A k \in CallIds :
        LET c == calls[k]
            doc == Decoded(c.after)
        IN  ( /\ c.func = "extract_json_field"
              /\ doc.t # "invalid"
              /\ HasBadIndex(doc, DotSplit(c.kwargs.field_path, 1, <<>>)) )
            => /\ c.exc = ""
               /\ c.value = c.kwargs.default

\* a segment that contains a bracket and is neither `key[digits]` nor
\* `[integer]`
Malformed(seg) ==
    /\ \E i \in 1..Len(seg) : seg[i] \in {"[", "]"}
    /\ ~HasIndex(seg)

\* C28: a path with a segment that contains brackets but is not exactly
\* `key[digits]` or `[integer]` makes extract_json_field return the
\* default: nothing that follows the bracket in the segment is ignored.
C28_MalformedSegmentReturnsDefault ==
    \A k \in CallIds :
        LET c == calls[k]
            segs == DotSplit(c.kwargs.field_path, 1, <<>>)
        IN  ( /\ c.func = "extract_json_field"
              /\ \E i \in 1..Len(segs) : Malformed(segs[i]) )
            => /\ c.exc = ""
               /\ c.value = c.kwargs.default

\* C29: assert_json_contains raises an assertion failure whenever the body
\* is not a JSON object (a JSON array or scalar, or a body that is not
\* parsable as JSON), for every expected dict, the empty one included.
C29_NonObjectBodyFails ==
    \A k \in CallIds :
        LET c == calls[k]
        IN  ( /\ c.func = "assert_json_contains"
              /\ c.kwargs["expected_dict"].t = "dict"
              /\ Decoded(c.after).t # "dict" )
            => /\ c.result.raised
               /\ c.result.exc = "AssertionError"

\* a record as it is once assert_from_config has reached it: a dict has
\* lost its `type` key, anything else is as it was
TypePopped(record) ==
    IF record.t = "dict"
    THEN PyDict([k \in DOMAIN record.v \ {"type"} |-> record.v[k]])
    ELSE record

\* the list `after` is the list `before` with its first n records reached
TypesPoppedUpTo(before, after, n) ==
    /\ Len(after) = Len(before)
    /\ \A i \in 1..Len(before) :
          after[i] = IF i <= n THEN TypePopped(before[i]) ELSE before[i]

\* C27: assert_from_config changes nothing in the caller's record list but
\* the `type` key it removes, in place, from each record it reaches: all
\* records when it passes, the records up to the failing one when it
\* raises (the later ones keep their `type` key), and a record rejected
\* for an unknown type has lost its `type` key when the error is raised.
\* An argument that is not a list is left as it is.
C27_OnlyTypeKeysRemoved ==
    \A k \in RunIds :
        LET r == runs[k]
        IN  /\ r.before.t # "list" => r.after = r.before
            /\ r.before.t = "list"
                 => /\ r.after.t = "list"
                    /\ \E n \in 0..Len(r.before.v) :
                          /\ TypesPoppedUpTo(r.before.v, r.after.v, n)
                          /\ ~r.raised => n = Len(r.before.v)
                          /\ r.raised => n >= 1
                          /\ r.err.idx >= 0 => n = r.err.idx + 1
                    /\ r.err.site = "unknown type"
                         => "type" \notin DOMAIN r.after.v[r.err.idx + 1].v

\* a list of two records was rejected for the unknown type of its first
\* record: that record has lost its `type` key and the second has kept it
C27_Witness ==
    \E k \in RunIds :
        LET r == runs[k]
        IN  /\ r.before.t = "list"
            /\ Len(r.before.v) = 2
            /\ r.err.site = "unknown type"
            /\ r.err.idx = 0
            /\ "type" \in DOMAIN r.before.v[1].v
            /\ "type" \notin DOMAIN r.after.v[1].v
            /\ r.after.v[2].t = "dict"
            /\ "type" \in DOMAIN r.after.v[2].v

\* the duration of a response and a number of seconds, in microseconds
DurationOf(response) ==
    (response.elapsed.days * 86400 + response.elapsed.seconds) * 1000000
    + response.elapsed.microseconds
BoundOf(max_seconds) ==
    IF max_seconds.t = "float" THEN max_seconds.v
    ELSE max_seconds.v * 1000000

RuleOf(c) == c.kwargs["rule_func"].v
RuleRaises(c) == RuleOf(c).kind = "raises"
RuleValue(c) ==
    IF RuleOf(c).kind = "status is 200"
    THEN PyBool(c.before.status_code = 200)
    ELSE RuleOf(c).value

\* the call ended in an assertion failure with the assertion-type label
FailedAs(c, label) ==
    /\ c.result.raised
    /\ c.result.exc = "AssertionError"
    /\ c.result.msg.assert_type = label

\* the rule's outcome when it raises nothing: True passes, False and a
\* value that is no bool are assertion failures with labels of their own
\* (the second naming the type returned)
ValueJudged(c) ==
    IF RuleValue(c).t # "bool"
    THEN /\ FailedAs(c, "business rule returned no bool[rule]")
         /\ c.result.msg.actual.v[1] = RuleValue(c).t
    ELSE IF RuleValue(c).v
    THEN ~c.result.raised /\ c.ret = c.self
    ELSE FailedAs(c, "business rule[rule]")

\* C22 (as stated): assert_business_rule never lets an exception raised by
\* the rule function reach the caller as is.  A rule that raises ends in an
\* assertion failure that embeds the original error text, a rule that
\* returns False and a rule that returns a non-boolean end in assertion
\* failures too, each of the three with its own label; only a rule that
\* returns True passes.
C22_RuleFailuresAreAssertionFailures ==
    \A k \in CallIds :
        LET c == calls[k]
        IN  ( /\ c.func = "assert_business_rule"
              /\ c.kwargs["rule_func"].t = "function" )
            => IF RuleRaises(c)
               THEN /\ FailedAs(c, "business rule raised[rule]")
                    /\ c.result.msg.actual.v[2] = RuleOf(c).text
               ELSE ValueJudged(c)

\* the first n characters of a text
FirstChars(text, n) ==
    [i \in 1..(IF Len(text) < n THEN Len(text) ELSE n) |-> text[i]]

\* C22 (amended): an exception of a class derived from Exception raised by
\* the rule function ends in an assertion failure that embeds the first
\* 500 characters of its text; an exception of another class
\* (KeyboardInterrupt, SystemExit, GeneratorExit) reaches the caller as it
\* is.  A rule that returns False and one that returns a non-boolean end in
\* assertion failures, each of the three with its own label; only a rule
\* that returns True passes.
C22_ExceptionsBecomeAssertionFailures ==
    \A k \in CallIds :
        LET c == calls[k]
        IN  ( /\ c.func = "assert_business_rule"
              /\ c.kwargs["rule_func"].t = "function" )
            => IF RuleRaises(c)
               THEN IF RuleOf(c).exc \in {"KeyboardInterrupt", "SystemExit",
                                          "GeneratorExit", "BaseException"}
                    THEN c.result.raised /\ c.result.exc = RuleOf(c).exc
                    ELSE /\ FailedAs(c, "business rule raised[rule]")
                         /\ c.result.msg.actual.v[2]
                              = FirstChars(RuleOf(c).text, 500)
               ELSE ValueJudged(c)

\* a rule that raised ValueError("bad") ended in the assertion failure that
\* embeds "bad"
C22_Witness ==
    \E k \in CallIds :
        LET c == calls[k]
        IN  /\ c.func = "assert_business_rule"
            /\ c.kwargs["rule_func"]
                 = PyFunction(Raises("ValueError", <<"b", "a", "d">>))
            /\ FailedAs(c, "business rule raised[rule]")
            /\ c.result.msg.actual.v[2] = <<"b", "a", "d">>

\* the operations of a chain whose failure is known from the response
\* alone: the status code is not the expected one, or it is 400..599
FailsItsAssertion(c) ==
    \/ /\ c.func = "assert_status_code"
       /\ c.before.status_code # c.kwargs["expected_code"].v
    \/ /\ c.func = "assert_is_ok"
       /\ c.before.status_code >= 400
       /\ c.before.status_code < 600

\* C26: in a chained call a.op1(...).op2(...)...opn(...) the operations are
\* executed in the order written, each on the instance a; when opk fails
\* its assertion none of opk+1..opn is executed, and the failure reaches
\* the caller as the AssertionError raised by opk, not wrapped.
C26_ChainStopsAtFirstFailure ==
    args.op = "chain"
    => /\ Len(calls) <= Len(args.chain)
       /\ \A k \in CallIds :
            LET c == calls[k]
            IN  /\ c.self = 1
                /\ c.func = args.chain[k].func
                /\ c.kwargs = args.chain[k].kwargs
                /\ FailsItsAssertion(c)
                     => /\ k = Len(calls)
                        /\ c.result.raised
                        /\ c.result.exc = "AssertionError"
                        /\ c.result.msg.assert_type
                             = IF c.func = "assert_status_code"
                               THEN "status code" ELSE "request is ok"

\* the first operation of a chain of two failed on a 404 and the chain can
\* go no further
C26_Witness ==
    /\ args.op = "chain"
    /\ Len(args.chain) = 2
    /\ Len(calls) = 1
    /\ calls[1].before.status_code = 404
    /\ calls[1].func = "assert_status_code"
    /\ calls[1].result.exc = "AssertionError"
    /\ ~ENABLED ChainStep

\* the correlation id of the response the assertor `self` is bound to
CorrelationId(self) == RequestIdOf(responses[assertors[self].response])

\* a failure message that carries the correlation id, an assertion type
\* label, an expected and an actual value
Complete(msg, self) ==
    /\ msg.req_id = CorrelationId(self)
    /\ msg.assert_type # ""
    /\ msg # NoMsg

\* C23: every assertion failure that reaches the caller carries a message
\* with the correlation id of the response of the assertor that was called
\* ("unknown" when the response has none), the assertion type label, the
\* expected and the actual value: the AssertionError of a direct call, and
\* for assert_from_config the AssertionError that the RuntimeError reaching
\* the caller is raised from.
C23_FailureMessageComplete ==
    /\ \A k \in CallIds :
          (calls[k].kind = "assertion"
             /\ calls[k].result.exc = "AssertionError")
          => Complete(calls[k].result.msg, calls[k].self)
    /\ \A k \in RunIds :
          (runs[k].err.site = "wrapped"
             /\ runs[k].err.cause = "AssertionError")
          => Complete(runs[k].log[Len(runs[k].log)].result.msg,
                      runs[k].self)

\* C24: with several threads constructing assertors and running
\* assert_from_config at the same time, the shared registry is assigned
\* once, and every lookup of a registered name yields the same operation.
C24_RegistryAssignedOnce ==
    /\ Cardinality({ t \in DOMAIN threads : threads[t].assigned }) <= 1
    /\ \A t \in DOMAIN threads : \A u \in DOMAIN threads :
          \A i \in DOMAIN threads[t].looked :
             \A j \in DOMAIN threads[u].looked :
                threads[t].looked[i].name = threads[u].looked[j].name
                => threads[t].looked[i].op = threads[u].looked[j].op

\* the calls of parse_yaml_to_params that returned
Parsed == { k \in DOMAIN calls : calls[k].kind = "parse_yaml_to_params"
                                  /\ ~calls[k].result.raised }

\* the data keys of all the cases
DataKeys(cases) == UNION { DOMAIN cases[c].v.data.v : c \in 1..Len(cases) }

\* names: every data key once, in ascending order, then assert_config
NamesSorted(names, cases) ==
    /\ Len(names) = Cardinality(DataKeys(cases)) + 1
    /\ names[Len(names)] = "assert_config"
    /\ { names[i] : i \in 1..(Len(names) - 1) } = DataKeys(cases)
    /\ \A i \in 1..(Len(names) - 1) : \A j \in (i + 1)..(Len(names) - 1) :
          StrLess(names[i], names[j])

\* one value per name: the case's value of the key, None for a key the
\* case lacks, the case's assert_config last
ValuesOf(tuple, names, case) ==
    /\ Len(tuple) = Len(names)
    /\ \A i \in 1..(Len(names) - 1) :
          tuple[i] = IF names[i] \in DOMAIN case.v.data.v
                     THEN case.v.data.v[names[i]] ELSE PyNone
    /\ tuple[Len(names)] = case.v.assert_config

\* id is desc without the whitespace around it
IdOf(id, desc) ==
    /\ \E i \in 0..Len(desc) : \E j \in 0..Len(desc) :
          /\ i + Len(id) + j = Len(desc)
          /\ id = SubSeq(desc, i + 1, i + Len(id))
          /\ \A n \in 1..i : desc[n] \in Whitespace
          /\ \A n \in (Len(desc) - j + 1)..Len(desc) : desc[n] \in Whitespace
    /\ id # <<>> => id[1] \notin Whitespace /\ id[Len(id)] \notin Whitespace

\* C30: parse_yaml_to_params returns the sorted union of all cases' data
\* keys followed by assert_config as names, one tuple of values per case in
\* case order with exactly one value per name (None for a data key the case
\* lacks, the case's own assert_config last), and one id per case in the
\* same order.
C30_ParamsMatchCases ==
    \A k \in Parsed :
        /\ NamesSorted(calls[k].result.param_names, calls[k].cases)
        /\ Len(calls[k].result.param_values) = Len(calls[k].cases)
        /\ Len(calls[k].result.case_ids) = Len(calls[k].cases)
        /\ \A c \in 1..Len(calls[k].cases) :
              /\ ValuesOf(calls[k].result.param_values[c],
                          calls[k].result.param_names, calls[k].cases[c])
              /\ IdOf(calls[k].result.case_ids[c],
                      calls[k].cases[c].v.desc.v)

\* two cases with different data keys were parsed: names B, a, b, and the
\* first case, which has no B, holds None for it
C30_Witness ==
    \E k \in Parsed :
        /\ Len(calls[k].cases) = 2
        /\ calls[k].result.param_names = <<"B", "a", "b", "assert_config">>
        /\ calls[k].result.param_values[1][1] = PyNone
        /\ calls[k].result.param_values[2][1] # PyNone
        /\ calls[k].result.case_ids = << <<"x">>, <<"y", " ", "z">> >>

====
